---- MODULE Spec2Model ----
(***************************************************************************)
(* Model of the Venice AI HTTP client (src/venice_ai_fixed.py):            *)
(* VeniceAIClient._handle_api_error, _exponential_backoff, generate_image, *)
(* chat_completion and text_to_speech.  Every operation runs synchronously *)
(* on one thread; the remote service is the environment, so each response  *)
(* is an input drawn with \E.  Strings are the program's strings, except   *)
(* that the emoji of the chat error fragments are left out.  Delays are in *)
(* tenths of a second.                                                     *)
(*                                                                         *)
(* Further down: the card-listing tool (src/ebay_card_lister.py), as the   *)
(* methods of CardLister applied to bounded inputs (CardSpec) and as the   *)
(* run of main and batch_process (ListerSpec); and the script runs of the  *)
(* Streamlit application: the image mode with its form (AppSpec), and the  *)
(* session state under the key management of the sidebar, the chat, audio  *)
(* and image modes and the recovery buttons of main (SessionSpec).  Each   *)
(* program has its own variables and its own specification.                *)
(***************************************************************************)
EXTENDS Integers, Sequences, FiniteSets, TLC

(* ------------------------------ bounds --------------------------------- *)
\* settings.max_retries ranges over 1..MaxRetriesBound
MaxRetriesBound == 8
\* lines of one streamed chat response
MaxLines == 3
\* images of one image response
MaxImages == 2
\* price elements of one scraped page of sold listings
MaxPrices == 3
\* records of one CSV file
MaxCards == 3
\* script runs of the Streamlit application
MaxReruns == 3

(* ------------------------- program constants --------------------------- *)
\* VeniceSettings.max_retries
DefaultMaxRetries == 3
\* the cap of _exponential_backoff, in seconds
BackoffCapSeconds == 60

Min(a, b) == IF a <= b THEN a ELSE b

(* --------------------------- HTTP responses ---------------------------- *)
\* status codes the service may answer with (200 and 201 are 2xx)
Statuses == {200, 201, 400, 401, 402, 429, 500}

\* Bodies of a failed response, by what response.json() and response.text
\* give: a JSON object with an 'error' field, a JSON object without one,
\* JSON that is not an object, text that is not JSON, and the empty body.
ErrorBodies ==
  { [shape |-> "json_error",  text |-> "{\"error\": \"slow down\"}", error |-> "slow down"],
    [shape |-> "json_object", text |-> "{\"detail\": \"nope\"}",     error |-> ""],
    [shape |-> "json_other",  text |-> "[\"nope\"]",                 error |-> ""],
    [shape |-> "text",        text |-> "Bad Gateway",                error |-> ""],
    [shape |-> "empty",       text |-> "",                           error |-> ""] }

\* response.json() succeeds (it raises on text that is not JSON)
JsonParses(body) == body.shape \in {"json_error", "json_object", "json_other"}
\* the parsed value is a dict, so error_data.get exists
JsonIsObject(body) == body.shape \in {"json_error", "json_object"}
\* 'error' is a key of the parsed dict
JsonHasError(body) == body.shape = "json_error"

HttpCodeText(status) == "HTTP " \o ToString(status)

\* Mutant: the precedence error value, else raw text, else 'HTTP <code>'
\* (the JSON object without an 'error' field falls back to the raw text).
ErrorMessageRawTextFirst(status, body) ==
  IF JsonParses(body) /\ JsonIsObject(body) /\ JsonHasError(body) THEN body.error
  ELSE IF body.text # "" THEN body.text ELSE HttpCodeText(status)

\* _handle_api_error, lines 302-306: the message
ErrorMessage(status, body) ==
  IF JsonParses(body) /\ JsonIsObject(body)
  THEN IF JsonHasError(body) THEN body.error ELSE HttpCodeText(status)
  ELSE IF body.text # "" THEN body.text ELSE HttpCodeText(status)

Exc(kind, msg) == [kind |-> kind, msg |-> msg]

\* _handle_api_error, lines 308-317: the exception raised for a status
RaiseForStatus(status, error_message) ==
  IF status = 401
  THEN Exc("AuthenticationError",
           "Invalid API key or Pro subscription required: " \o error_message)
  ELSE IF status = 402
  THEN Exc("QuotaExceededError",
           "Insufficient balance or quota exceeded: " \o error_message)
  ELSE IF status = 429
  THEN Exc("RateLimitError", "Rate limit exceeded: " \o error_message)
  ELSE IF status = 400
  THEN Exc("BadRequestError", "Invalid parameters: " \o error_message)
  ELSE Exc("VeniceAPIError",
           "API Error " \o ToString(status) \o ": " \o error_message)

\* Mutant: the except of line 305 catches only the JSON decoding error, so
\* error_data.get on a parsed value that is not a dict escapes.
HandleApiErrorNarrowExcept(status, body) ==
  IF JsonParses(body) /\ ~JsonIsObject(body)
  THEN Exc("AttributeError", "'list' object has no attribute 'get'")
  ELSE RaiseForStatus(status, ErrorMessage(status, body))

\* _handle_api_error, whole: it always raises
HandleApiError(status, body) ==
  RaiseForStatus(status, ErrorMessage(status, body))

\* The exception classes: the custom hierarchy under VeniceAPIError and the
\* requests hierarchy under RequestException.
VeniceErrorKinds ==
  {"VeniceAPIError", "AuthenticationError", "RateLimitError", "BadRequestError",
   "ConnectionError", "QuotaExceededError"}
RequestExceptionKinds ==
  {"requests.Timeout", "requests.ConnectionError", "requests.ChunkedEncodingError",
   "requests.JSONDecodeError"}

\* Mutant: the cap is left out.
ExponentialBackoffUncapped(attempt) == 10 * 2 ^ attempt + attempt

\* _exponential_backoff: min(2 ** attempt + 0.1 * attempt, 60), in tenths
ExponentialBackoff(attempt) ==
  Min(10 * 2 ^ attempt + attempt, 10 * BackoffCapSeconds)

(* ------------------------ image-endpoint replies ----------------------- *)
\* One entry of data['images']: raw base64, or already a data URL.
ImageItems == { [dataurl |-> FALSE, b64 |-> "AAAA"], [dataurl |-> TRUE, b64 |-> "BBBB"] }

RECURSIVE SeqsUpTo(_, _)
SeqsUpTo(S, n) ==
  IF n = 0 THEN {<<>>}
  ELSE LET shorter == SeqsUpTo(S, n - 1) IN
       shorter \cup {Append(s, x) : s \in {t \in shorter : Len(t) = n - 1}, x \in S}

\* Payloads of a 200 reply of the image endpoint, by what the code does with
\* them: an object whose 'images' is a list of strings (possibly empty), an
\* object without 'images', a body that is not JSON (response.json() raises
\* requests' JSONDecodeError, or json's own under an older requests), JSON
\* that is not a container ('images' in data raises TypeError), and a list
\* holding a non-string (img_b64.startswith raises AttributeError).
ImagePayloads ==
  {[shape |-> "images", images |-> s, raises |-> ""] : s \in SeqsUpTo(ImageItems, MaxImages)}
  \cup {[shape |-> "no_images_key", images |-> <<>>, raises |-> ""]}
  \cup {[shape |-> "not_json", images |-> <<>>, raises |-> k] :
          k \in {"requests.JSONDecodeError", "json.JSONDecodeError"}}
  \cup {[shape |-> "not_container", images |-> <<>>, raises |-> "TypeError"]}
  \cup {[shape |-> "bad_item", images |-> <<>>, raises |-> "AttributeError"]}

NoBody == [shape |-> "empty", text |-> "", error |-> ""]
\* The body of a reply that is not a 200 and yet carries what a 200 would:
\* a JSON object with 'images' (and no 'error'), or the text of an event
\* stream, which is not JSON.
PayloadBody == [shape |-> "json_object", text |-> "{\"images\": [\"AAAA\"]}", error |-> ""]
StreamBody == [shape |-> "text", text |-> "data: {\"choices\": []}", error |-> ""]
NoPayload == [shape |-> "none", images |-> <<>>, raises |-> ""]

\* What session.post gives generate_image: a reply with a status (a 200 with
\* a payload, any other with an error body, a 201 also with a payload), or a
\* transport exception.
ImageReplies ==
  {[transport |-> "ok", status |-> 200, body |-> NoBody, payload |-> p] : p \in ImagePayloads}
  \cup {[transport |-> "ok", status |-> s, body |-> b, payload |-> NoPayload] :
          s \in Statuses \ {200}, b \in ErrorBodies}
  \cup {[transport |-> "ok", status |-> 201, body |-> PayloadBody, payload |-> p] :
          p \in {q \in ImagePayloads : q.shape = "images" /\ q.images # <<>>}}
  \cup {[transport |-> t, status |-> 0, body |-> NoBody, payload |-> NoPayload] :
          t \in {"requests.Timeout", "requests.ConnectionError"}}

\* str(e) of a transport exception
TransportText(t) ==
  IF t = "requests.Timeout" THEN "Read timed out." ELSE "Connection aborted."

(* ------------------------------- state --------------------------------- *)
VARIABLES
  max_retries,  \* self.settings.max_retries of the client
  pc,           \* "idle", "image" (in the retry loop), "chat" (reading lines), "done"
  op,           \* the operation of the current call: "none", "image", "chat", "tts"
  attempt,      \* generate_image: the loop index
  events,       \* what the current call has done so far, in order (see Event)
  result,       \* what the call returned or raised
  lines,        \* chat: the lines response.iter_lines() will deliver
  stream_end,   \* chat: how iter_lines ends after them: "eof" or an exception
  idx,          \* chat: number of lines pulled from iter_lines so far
  yielded,      \* chat: the items the generator has yielded so far
  last_reply,   \* the last reply session.post gave the current call
  handled       \* the last call of _handle_api_error: its argument, what it raised

clientVars == <<max_retries, pc, op, attempt, events, result, lines, stream_end, idx,
                yielded, last_reply, handled>>

\* The card-listing tool (src/ebay_card_lister.py) is a program of its own.
VARIABLES
  args,         \* main: the parsed command line, [batch, no_pricing]
  cards,        \* the records load_cards_from_csv (or the prompts) delivered
  lister_pc,    \* "start", "batch" (in the loop of batch_process), "done"
  card_i,       \* batch_process: the number of records taken from the list
  results,      \* batch_process: its results list; interactive: the one result
  processed,    \* the records process_single_card was called for, by position
  failed,       \* the positions whose process_single_card raised
  lookups       \* the positions analyze_pricing sent its HTTP GET for

listerVars == <<args, cards, lister_pc, card_i, results, processed, failed, lookups>>

\* One call of a CardLister method that keeps no state between calls.
VARIABLES
  method,       \* the method called last, "none" before the first call
  given,        \* its argument: the card record, and the page it scraped
  returned      \* [value, raised]: what it returned, or the exception it raised

cardVars == <<method, given, returned>>

\* The Streamlit application (main of src/venice_ai_fixed.py), one script
\* run ("rerun") after the other.
VARIABLES
  ui_pc,        \* "idle" (between reruns), "run" (client built), "images" (in the loop)
  reruns,       \* script runs started so far
  client,       \* the VeniceAIClient of the current run (0: none)
  sessions,     \* every requests.Session created so far, as [owner, open]
  form,         \* the submitted image form
  img_i,        \* _generate_images: the loop index i
  image_requests \* the generate_image calls of the current submission, in order

appVars == <<ui_pc, reruns, client, sessions, form, img_i, image_requests>>

\* st.session_state, which outlives the script runs, and what a run does with
\* it.  None is the empty string here: the program tests the key for truth
\* everywhere but in SessionState.initialize.
VARIABLES
  env_key,          \* VENICE_API_KEY of st.secrets or of the environment ("": not set)
  api_key,          \* session_state.api_key
  api_validated,    \* session_state.api_validated
  available_models, \* session_state.available_models: [text, image, audio], sets of ids
  rate_limit_info,  \* session_state.rate_limit_info ("": the empty dict)
  validation,       \* the last call of validate_api_key: its replies and its result
  messages,         \* session_state.messages: [role, content] in order
  conversation_id,  \* session_state.conversation_id: the n-th uuid4 drawn
  total_tokens,     \* session_state.total_tokens
  is_streaming,     \* session_state.is_streaming
  generated_audio,  \* session_state.generated_audio
  image_history,    \* session_state.image_history
  last_error,       \* session_state.last_error ("": None)
  sent              \* the client operations of the current run: [kind, key, validated]

keyVars == <<env_key, api_key, api_validated, available_models, rate_limit_info, validation>>
chatVars == <<messages, conversation_id, total_tokens, is_streaming>>
mediaVars == <<generated_audio, image_history, last_error, sent>>
sessionVars == <<keyVars, chatVars, mediaVars>>

otherVars == <<listerVars, cardVars, appVars, sessionVars>>
vars == <<clientVars, otherVars>>

\* Each program is checked under its own specification; there the variables
\* of the other programs keep these values.
NoLister ==
  /\ args = [batch |-> FALSE, no_pricing |-> FALSE]
  /\ cards = <<>>
  /\ lister_pc = "start"
  /\ card_i = 0
  /\ results = <<>>
  /\ processed = <<>>
  /\ failed = {}
  /\ lookups = <<>>

NoCardCall ==
  /\ method = "none"
  /\ given = <<>>
  /\ returned = <<>>

NoApp ==
  /\ ui_pc = "idle"
  /\ reruns = 0
  /\ client = 0
  /\ sessions = <<>>
  /\ form = <<>>
  /\ img_i = 0
  /\ image_requests = <<>>

\* SessionState.initialize, lines 229-247, on an empty session state without
\* a configured key.
NoModels == [text |-> {}, image |-> {}, audio |-> {}]
NoValidation ==
  [called |-> FALSE, key |-> "", rate_status |-> 0, rate_json |-> "", valid |-> FALSE,
   message |-> ""]
Defaults ==
  /\ api_key = ""
  /\ api_validated = FALSE
  /\ available_models = NoModels
  /\ rate_limit_info = ""
  /\ messages = <<>>
  /\ conversation_id = 1
  /\ total_tokens = 0
  /\ is_streaming = FALSE
  /\ generated_audio = <<>>
  /\ image_history = <<>>
  /\ last_error = ""

NoSessionState ==
  /\ env_key = ""
  /\ Defaults
  /\ validation = NoValidation
  /\ sent = <<>>

\* The observable steps of a call: an HTTP request sent, the status it got
\* (0: no reply, the transport raised), logger.warning, logger.error, and a
\* blocking time.sleep of arg tenths of a second.
Event(type, arg) == [type |-> type, arg |-> arg]
Request == Event("request", 0)
Response(reply) == Event("response", reply.status)
Warning == Event("warning", 0)
ErrorLog == Event("error", 0)
Sleep(d) == Event("sleep", d)

\* What a call gives its caller.  generate_image returns a dict (success,
\* error, images); text_to_speech returns audio or raises (raised, error).
NoResult == [success |-> FALSE, error |-> "", images |-> <<>>, raised |-> "", audio |-> ""]
ImageSuccess(images) == [NoResult EXCEPT !.success = TRUE, !.images = images]
ImageFailure(error) == [NoResult EXCEPT !.error = error]
Raised(kind, msg) == [NoResult EXCEPT !.raised = kind, !.error = msg]

NoReply == [transport |-> "none", status |-> 0]

\* _handle_api_error called on a reply: status and body are its argument,
\* detail the local error_message, kind and msg the exception it raised.
NotHandled ==
  [called |-> FALSE, status |-> 0, body |-> NoBody, detail |-> "", kind |-> "", msg |-> ""]
Handled(status, body) ==
  [called |-> TRUE, status |-> status, body |-> body,
   detail |-> ErrorMessage(status, body),
   kind |-> HandleApiError(status, body).kind,
   msg |-> HandleApiError(status, body).msg]

(* --------------------------- generate_image ---------------------------- *)
\* Mutant: the first entry of data['images'] is lost in the conversion.
ToDataUrlsDropsFirst(images) ==
  [i \in 1..(Len(images) - 1) |-> [dataurl |-> TRUE, b64 |-> images[i + 1].b64]]

\* lines 491-496: every image becomes a data URL; one that is one already is kept
ToDataUrls(images) ==
  [i \in 1..Len(images) |-> [dataurl |-> TRUE, b64 |-> images[i].b64]]

\* One outcome of the try body (lines 478-520): return a dict, continue after
\* a wait, or raise.
TryReturn(r) == [tag |-> "return", result |-> r, exc |-> Exc("", ""), events |-> <<>>]
TryContinue(ev) == [tag |-> "continue", result |-> NoResult, exc |-> Exc("", ""), events |-> ev]
TryRaise(e) == [tag |-> "raise", result |-> NoResult, exc |-> e, events |-> <<>>]

\* Mutant: the emptiness test of line 489 is left out, so an empty image list
\* is returned as a success.
ImageParseAcceptsEmpty(payload) ==
  IF payload.shape = "not_json"
  THEN TryRaise(Exc(payload.raises, "Expecting value: line 1 column 1 (char 0)"))
  ELSE IF payload.shape = "not_container"
  THEN TryRaise(Exc("TypeError", "argument of type 'int' is not iterable"))
  ELSE IF payload.shape = "bad_item"
  THEN TryRaise(Exc("AttributeError", "'int' object has no attribute 'startswith'"))
  ELSE IF payload.shape = "images"
  THEN TryReturn(ImageSuccess(ToDataUrls(payload.images)))
  ELSE TryRaise(Exc("ValueError", "No images found in API response"))

\* lines 485-508: a 200 reply
ImageParse(payload) ==
  IF payload.shape = "not_json"
  THEN TryRaise(Exc(payload.raises, "Expecting value: line 1 column 1 (char 0)"))
  ELSE IF payload.shape = "not_container"
  THEN TryRaise(Exc("TypeError", "argument of type 'int' is not iterable"))
  ELSE IF payload.shape = "bad_item"
  THEN TryRaise(Exc("AttributeError", "'int' object has no attribute 'startswith'"))
  ELSE IF payload.shape = "images" /\ payload.images # <<>>
  THEN TryReturn(ImageSuccess(ToDataUrls(payload.images)))
  ELSE TryRaise(Exc("ValueError", "No images found in API response"))

\* Mutant: the test of line 512 is off by one, so the last attempt waits too.
ImageRateLimitedOffByOne(n, retries) ==
  IF n < retries
  THEN TryContinue(<<Warning, Sleep(ExponentialBackoff(n))>>)
  ELSE TryRaise(Exc("RateLimitError", "Maximum retries exceeded for rate limit"))

\* Mutant: the delay is that of the next attempt (attempts counted from 1).
ImageRateLimitedNextAttempt(n, retries) ==
  IF n < retries - 1
  THEN TryContinue(<<Warning, Sleep(ExponentialBackoff(n + 1))>>)
  ELSE TryRaise(Exc("RateLimitError", "Maximum retries exceeded for rate limit"))

\* lines 510-518: a 429 reply
ImageRateLimited(n, retries) ==
  IF n < retries - 1
  THEN TryContinue(<<Warning, Sleep(ExponentialBackoff(n))>>)
  ELSE TryRaise(Exc("RateLimitError", "Maximum retries exceeded for rate limit"))

\* Mutant: a server error (5xx) is retried like a 429.
ImageTryRetriesServerErrors(reply, n, retries) ==
  IF reply.transport # "ok"
  THEN TryRaise(Exc(reply.transport, TransportText(reply.transport)))
  ELSE IF reply.status = 200 THEN ImageParse(reply.payload)
  ELSE IF reply.status = 429 \/ reply.status >= 500 THEN ImageRateLimited(n, retries)
  ELSE TryRaise(HandleApiError(reply.status, reply.body))

\* lines 478-520: the try body for one reply
ImageTry(reply, n, retries) ==
  IF reply.transport # "ok"
  THEN TryRaise(Exc(reply.transport, TransportText(reply.transport)))
  ELSE IF reply.status = 200 THEN ImageParse(reply.payload)
  ELSE IF reply.status = 429 THEN ImageRateLimited(n, retries)
  ELSE TryRaise(HandleApiError(reply.status, reply.body))

\* Mutant: the isinstance test of line 523 is left out, so every exception of
\* the first clause is retried while attempts remain.
ImageExceptRetriesAll(e, n, retries) ==
  IF e.kind \in {"RateLimitError", "AuthenticationError", "QuotaExceededError",
                 "BadRequestError"}
  THEN IF n < retries - 1
       THEN TryContinue(<<Sleep(ExponentialBackoff(n))>>)
       ELSE TryReturn(ImageFailure(e.msg))
  ELSE IF e.kind \in RequestExceptionKinds
  THEN [TryReturn(ImageFailure("Request failed: " \o e.msg)) EXCEPT !.events = <<ErrorLog>>]
  ELSE [TryReturn(ImageFailure(e.msg)) EXCEPT !.events = <<ErrorLog>>]

\* lines 522-548: the except clauses, in order
ImageExcept(e, n, retries) ==
  IF e.kind \in {"RateLimitError", "AuthenticationError", "QuotaExceededError",
                 "BadRequestError"}
  THEN IF n < retries - 1 /\ e.kind = "RateLimitError"
       THEN TryContinue(<<Sleep(ExponentialBackoff(n))>>)
       ELSE TryReturn(ImageFailure(e.msg))
  ELSE IF e.kind \in RequestExceptionKinds
  THEN [TryReturn(ImageFailure("Request failed: " \o e.msg)) EXCEPT !.events = <<ErrorLog>>]
  ELSE [TryReturn(ImageFailure(e.msg)) EXCEPT !.events = <<ErrorLog>>]

\* One iteration of the loop of line 477
ImageIteration(reply, n, retries) ==
  LET t == ImageTry(reply, n, retries) IN
  IF t.tag = "raise" THEN ImageExcept(t.exc, n, retries) ELSE t

\* lines 550-555: the loop ran out
ImageExhausted == ImageFailure("Maximum retries exceeded")

\* generate_image, lines 475-555, run to its end on the replies in the order
\* they come: what it returns, and the number of requests it sent.
RECURSIVE GenerateImageFrom(_, _, _)
GenerateImageFrom(replies, n, retries) ==
  IF n >= retries \/ replies = <<>>
  THEN [result |-> ImageExhausted, requests |-> n]
  ELSE LET out == ImageIteration(Head(replies), n, retries) IN
       IF out.tag = "return" THEN [result |-> out.result, requests |-> n + 1]
       ELSE GenerateImageFrom(Tail(replies), n + 1, retries)

\* generate_image up to the loop (lines 454-475): the payload is built
GenerateImage ==
  /\ pc = "idle"
  /\ op' = "image"
  /\ events' = <<>>
  /\ attempt' = 0
  /\ IF 0 < max_retries
     THEN pc' = "image" /\ result' = NoResult
     ELSE pc' = "done" /\ result' = ImageExhausted
  /\ lines' = <<>> /\ stream_end' = "eof" /\ idx' = 0 /\ yielded' = <<>>
  /\ last_reply' = NoReply /\ handled' = NotHandled
  /\ UNCHANGED max_retries
  /\ UNCHANGED otherVars

\* one iteration: the request, its reply, and what the code makes of it
GenerateImageAttempt ==
  /\ pc = "image"
  /\ \E r \in ImageReplies :
       LET out == ImageIteration(r, attempt, max_retries) IN
       /\ events' = events \o <<Request, Response(r)>> \o out.events
       /\ last_reply' = r
       /\ handled' = IF r.transport = "ok" /\ r.status \notin {200, 429}
                     THEN Handled(r.status, r.body) ELSE handled
       /\ IF out.tag = "return"
          THEN /\ pc' = "done"
               /\ result' = out.result
               /\ attempt' = attempt
          ELSE /\ attempt' = attempt + 1
               /\ IF attempt + 1 < max_retries
                  THEN pc' = "image" /\ result' = result
                  ELSE pc' = "done" /\ result' = ImageExhausted
  /\ UNCHANGED <<max_retries, op, lines, stream_end, idx, yielded>>
  /\ UNCHANGED otherVars

(* --------------------------- chat_completion --------------------------- *)
\* The lines of a streamed reply, by what lines 413-426 do with them:
\*   blank        b''                              (falsy, skipped)
\*   noprefix     ': keep-alive'                   (no 'data: ' prefix)
\*   done         'data: [DONE]'                   (the sentinel)
\*   badjson      'data: {"choices": [{"del'       (json.loads raises JSONDecodeError)
\*   content      'data: {"choices":[{"delta":{"content":"A"}}]}'
\*   nocontent    'data: {"choices":[{"delta":{"role":"assistant"}}]}'
\*   badshape     'data: 5'                        ('choices' in data raises TypeError)
\*   undecodable  b'\xff\xfe'                      (line.decode raises UnicodeDecodeError)
ChatLine(kind, frag) == [kind |-> kind, frag |-> frag]
Fragments == {"A", "B"}
ChatLines ==
  {ChatLine(k, "") : k \in {"blank", "noprefix", "done", "badjson", "nocontent",
                             "badshape", "undecodable"}}
  \cup {ChatLine("content", f) : f \in Fragments}

\* how iter_lines ends after the last line: the stream closes, or the read fails
StreamEnds == {"eof", "requests.ConnectionError", "requests.ChunkedEncodingError"}

ChatReplies ==
  {[transport |-> "ok", status |-> 200, body |-> NoBody, lines |-> ls, stream_end |-> e] :
      ls \in SeqsUpTo(ChatLines, MaxLines), e \in StreamEnds}
  \cup {[transport |-> "ok", status |-> s, body |-> b, lines |-> <<>>, stream_end |-> "eof"] :
          s \in Statuses \ {200}, b \in ErrorBodies}
  \cup {[transport |-> "ok", status |-> 201, body |-> StreamBody,
         lines |-> <<ChatLine("content", f), ChatLine("done", "")>>, stream_end |-> "eof"] :
          f \in Fragments}
  \cup {[transport |-> t, status |-> 0, body |-> NoBody, lines |-> <<>>, stream_end |-> "eof"] :
          t \in {"requests.Timeout", "requests.ConnectionError"}}

\* An item the generator yields: a content fragment or an error fragment.
Content(text) == [type |-> "content", text |-> text]
ErrorFragment(text) == [type |-> "error", text |-> text]

\* What one line does (lines 413-426): nothing, yield a fragment, end the
\* loop, or raise out of it.
LineSkip(ev) == [tag |-> "skip", frag |-> "", exc |-> Exc("", ""), events |-> ev]
LineYield(f) == [tag |-> "yield", frag |-> f, exc |-> Exc("", ""), events |-> <<>>]
LineBreak == [tag |-> "break", frag |-> "", exc |-> Exc("", ""), events |-> <<>>]
LineRaise(e) == [tag |-> "raise", frag |-> "", exc |-> e, events |-> <<>>]

\* Mutant: the sentinel test of lines 416-417 is left out; '[DONE]' is then
\* one more payload that json.loads rejects.
ChatProcessLineIgnoresDone(line) ==
  IF line.kind = "blank" THEN LineSkip(<<>>)
  ELSE IF line.kind = "undecodable"
  THEN LineRaise(Exc("UnicodeDecodeError", "'utf-8' codec can't decode byte 0xff"))
  ELSE IF line.kind = "noprefix" THEN LineSkip(<<>>)
  ELSE IF line.kind \in {"done", "badjson"} THEN LineSkip(<<Warning>>)
  ELSE IF line.kind = "badshape"
  THEN LineRaise(Exc("TypeError", "argument of type 'int' is not iterable"))
  ELSE IF line.kind = "content" THEN LineYield(line.frag)
  ELSE LineSkip(<<>>)

\* Mutant: the except of line 424 is left out, so a payload json.loads
\* rejects raises out of the loop.
ChatProcessLineBadJsonRaises(line) ==
  IF line.kind = "blank" THEN LineSkip(<<>>)
  ELSE IF line.kind = "undecodable"
  THEN LineRaise(Exc("UnicodeDecodeError", "'utf-8' codec can't decode byte 0xff"))
  ELSE IF line.kind = "noprefix" THEN LineSkip(<<>>)
  ELSE IF line.kind = "done" THEN LineBreak
  ELSE IF line.kind = "badjson"
  THEN LineRaise(Exc("JSONDecodeError", "Expecting value: line 1 column 1 (char 0)"))
  ELSE IF line.kind = "badshape"
  THEN LineRaise(Exc("TypeError", "argument of type 'int' is not iterable"))
  ELSE IF line.kind = "content" THEN LineYield(line.frag)
  ELSE LineSkip(<<>>)

\* lines 413-426: the loop body for one line
ChatProcessLine(line) ==
  IF line.kind = "blank" THEN LineSkip(<<>>)
  ELSE IF line.kind = "undecodable"
  THEN LineRaise(Exc("UnicodeDecodeError", "'utf-8' codec can't decode byte 0xff"))
  ELSE IF line.kind = "noprefix" THEN LineSkip(<<>>)
  ELSE IF line.kind = "done" THEN LineBreak
  ELSE IF line.kind = "badjson" THEN LineSkip(<<Warning>>)
  ELSE IF line.kind = "badshape"
  THEN LineRaise(Exc("TypeError", "argument of type 'int' is not iterable"))
  ELSE IF line.kind = "content" THEN LineYield(line.frag)
  ELSE LineSkip(<<>>)

\* An except clause took the exception and yields one fragment; an exception
\* no clause takes leaves the generator and reaches its consumer.
Caught(frag, ev) == [caught |-> TRUE, frag |-> frag, events |-> ev]
Uncaught == [caught |-> FALSE, frag |-> ErrorFragment(""), events |-> <<>>]

\* Mutant: the last clause (except Exception, lines 434-436) is left out, so
\* an exception that is neither a VeniceAPIError nor a timeout nor a
\* connection error reaches the consumer.
ChatExceptWithoutCatchAll(e) ==
  IF e.kind \in VeniceErrorKinds
  THEN Caught(ErrorFragment(":x: Error: " \o e.msg), <<>>)
  ELSE IF e.kind = "requests.Timeout"
  THEN Caught(ErrorFragment(":alarm_clock: Error: Request timed out. Please try again."),
              <<>>)
  ELSE IF e.kind = "requests.ConnectionError"
  THEN Caught(ErrorFragment(
                ":electric_plug: Error: Connection failed. Please check your internet connection."),
              <<>>)
  ELSE Uncaught

\* lines 428-436: the except clauses, in order; each yields one fragment
ChatExcept(e) ==
  IF e.kind \in VeniceErrorKinds
  THEN Caught(ErrorFragment(":x: Error: " \o e.msg), <<>>)
  ELSE IF e.kind = "requests.Timeout"
  THEN Caught(ErrorFragment(":alarm_clock: Error: Request timed out. Please try again."),
              <<>>)
  ELSE IF e.kind = "requests.ConnectionError"
  THEN Caught(ErrorFragment(
                ":electric_plug: Error: Connection failed. Please check your internet connection."),
              <<>>)
  ELSE Caught(ErrorFragment(":x: Error: " \o e.msg), <<ErrorLog>>)

\* what the generator yields for an exception raised in its try block
ChatYieldFor(e) == IF ChatExcept(e).caught THEN <<ChatExcept(e).frag>> ELSE <<>>
\* what reaches the consumer as an exception: nothing when a clause took it
ChatPropagates(e) == IF ChatExcept(e).caught THEN NoResult ELSE Raised(e.kind, e.msg)

\* Mutant: the test of line 409 takes every 2xx status for a success.
ChatRequestRaisesBelow2xxOnly(reply) ==
  IF reply.transport # "ok" THEN Exc(reply.transport, TransportText(reply.transport))
  ELSE IF reply.status < 200 \/ reply.status >= 300
  THEN HandleApiError(reply.status, reply.body)
  ELSE Exc("", "")

\* lines 402-410: what the request raises, if anything
ChatRequestRaises(reply) ==
  IF reply.transport # "ok" THEN Exc(reply.transport, TransportText(reply.transport))
  ELSE IF reply.status # 200 THEN HandleApiError(reply.status, reply.body)
  ELSE Exc("", "")

\* The generator run to its end on a 200 reply, as a function of the lines:
\* list(chat_completion(...)), lines 412-436.
RECURSIVE ChatRunFrom(_, _, _)
ChatRunFrom(ls, i, end) ==
  IF i > Len(ls)
  THEN IF end = "eof" THEN <<>> ELSE ChatYieldFor(Exc(end, "Connection broken"))
  ELSE LET out == ChatProcessLine(ls[i]) IN
       IF out.tag = "raise" THEN ChatYieldFor(out.exc)
       ELSE IF out.tag = "break" THEN <<>>
       ELSE IF out.tag = "yield" THEN <<Content(out.frag)>> \o ChatRunFrom(ls, i + 1, end)
       ELSE ChatRunFrom(ls, i + 1, end)

ChatRun(ls, end) == ChatRunFrom(ls, 1, end)

\* list(chat_completion(...)) on a reply, lines 402-436
ChatYielded(reply) ==
  IF ChatRequestRaises(reply).kind # "" THEN ChatYieldFor(ChatRequestRaises(reply))
  ELSE ChatRun(reply.lines, reply.stream_end)

\* chat_completion up to the first line: the request and its status
ChatCompletion ==
  /\ pc = "idle"
  /\ op' = "chat"
  /\ attempt' = 0
  /\ idx' = 0
  /\ \E r \in ChatReplies :
       LET e == ChatRequestRaises(r) IN
       /\ last_reply' = r
       /\ handled' = IF r.transport = "ok" /\ r.status # 200
                     THEN Handled(r.status, r.body) ELSE NotHandled
       /\ IF e.kind # ""
          THEN /\ events' = <<Request, Response(r)>> \o ChatExcept(e).events
               /\ yielded' = ChatYieldFor(e)
               /\ result' = ChatPropagates(e)
               /\ lines' = <<>> /\ stream_end' = "eof"
               /\ pc' = "done"
          ELSE /\ events' = <<Request, Response(r)>>
               /\ yielded' = <<>>
               /\ result' = NoResult
               /\ lines' = r.lines /\ stream_end' = r.stream_end
               /\ pc' = "chat"
  /\ UNCHANGED max_retries
  /\ UNCHANGED otherVars

\* the for loop of line 412 asks iter_lines for the next line
ChatCompletionNext ==
  /\ pc = "chat"
  /\ IF idx < Len(lines)
     THEN LET out == ChatProcessLine(lines[idx + 1]) IN
          /\ idx' = idx + 1
          /\ IF out.tag = "raise"
             THEN /\ yielded' = yielded \o ChatYieldFor(out.exc)
                  /\ result' = ChatPropagates(out.exc)
                  /\ events' = events \o ChatExcept(out.exc).events
                  /\ pc' = "done"
             ELSE /\ yielded' = IF out.tag = "yield"
                                 THEN Append(yielded, Content(out.frag)) ELSE yielded
                  /\ result' = result
                  /\ events' = events \o out.events
                  /\ pc' = IF out.tag = "break" THEN "done" ELSE "chat"
     ELSE /\ idx' = idx
          /\ pc' = "done"
          /\ IF stream_end = "eof"
             THEN UNCHANGED <<yielded, events, result>>
             ELSE LET e == Exc(stream_end, "Connection broken") IN
                  /\ yielded' = yielded \o ChatYieldFor(e)
                  /\ result' = ChatPropagates(e)
                  /\ events' = events \o ChatExcept(e).events
  /\ UNCHANGED <<max_retries, op, attempt, lines, stream_end, last_reply, handled>>
  /\ UNCHANGED otherVars

(* --------------------------- text_to_speech ---------------------------- *)
TtsReplies ==
  {[transport |-> "ok", status |-> 200, body |-> NoBody, content |-> "ID3-audio"]}
  \cup {[transport |-> "ok", status |-> s, body |-> b, content |-> b.text] :
          s \in Statuses \ {200}, b \in ErrorBodies}
  \cup {[transport |-> t, status |-> 0, body |-> NoBody, content |-> ""] :
          t \in {"requests.Timeout", "requests.ConnectionError"}}

\* Mutant: the clauses of lines 585-588 are left out; every exception is
\* wrapped by the last clause.
TtsExceptWrapsAll(e) ==
  Raised("VeniceAPIError", "Audio generation failed: " \o e.msg)

\* lines 585-591: the except clauses, in order
TtsExcept(e) ==
  IF e.kind \in VeniceErrorKinds THEN Raised(e.kind, e.msg)
  ELSE IF e.kind \in RequestExceptionKinds
  THEN Raised("ConnectionError", "Request failed: " \o e.msg)
  ELSE Raised("VeniceAPIError", "Audio generation failed: " \o e.msg)

\* lines 574-591: what text_to_speech returns or raises on a reply
TtsReturns(r) ==
  IF r.transport # "ok"
  THEN TtsExcept(Exc(r.transport, TransportText(r.transport)))
  ELSE IF r.status # 200
  THEN TtsExcept(HandleApiError(r.status, r.body))
  ELSE [NoResult EXCEPT !.success = TRUE, !.audio = r.content]

\* text_to_speech, whole: one request, then the audio or an exception
TextToSpeech ==
  /\ pc = "idle"
  /\ op' = "tts"
  /\ pc' = "done"
  /\ attempt' = 0
  /\ \E r \in TtsReplies :
       /\ events' = <<Request, Response(r)>>
       /\ last_reply' = r
       /\ handled' = IF r.transport = "ok" /\ r.status # 200
                     THEN Handled(r.status, r.body) ELSE NotHandled
       /\ result' = TtsReturns(r)
  /\ lines' = <<>> /\ stream_end' = "eof" /\ idx' = 0 /\ yielded' = <<>>
  /\ UNCHANGED max_retries
  /\ UNCHANGED otherVars

(* ------------------------------ the caller ----------------------------- *)
\* The call has returned (or raised, or its generator is exhausted); the
\* caller has the result and the client is ready for its next call.
Return ==
  /\ pc = "done"
  /\ pc' = "idle"
  /\ op' = "none"
  /\ attempt' = 0
  /\ events' = <<>>
  /\ result' = NoResult
  /\ lines' = <<>> /\ stream_end' = "eof" /\ idx' = 0 /\ yielded' = <<>>
  /\ last_reply' = NoReply /\ handled' = NotHandled
  /\ UNCHANGED max_retries
  /\ UNCHANGED otherVars

(* ---------------------------- specification ---------------------------- *)
\* A client as __init__ leaves it.  VeniceSettings.max_retries is 3 by
\* default; every positive value up to the bound is covered.
Init ==
  /\ max_retries \in 1..MaxRetriesBound
  /\ pc = "idle"
  /\ op = "none"
  /\ attempt = 0
  /\ events = <<>>
  /\ result = NoResult
  /\ lines = <<>>
  /\ stream_end = "eof"
  /\ idx = 0
  /\ yielded = <<>>
  /\ last_reply = NoReply
  /\ handled = NotHandled
  /\ NoLister /\ NoCardCall /\ NoApp /\ NoSessionState

\* the client of the other specifications: built, never called
ClientIdle ==
  /\ max_retries = DefaultMaxRetries
  /\ pc = "idle"
  /\ op = "none"
  /\ attempt = 0
  /\ events = <<>>
  /\ result = NoResult
  /\ lines = <<>>
  /\ stream_end = "eof"
  /\ idx = 0
  /\ yielded = <<>>
  /\ last_reply = NoReply
  /\ handled = NotHandled

Next ==
  \/ GenerateImage
  \/ GenerateImageAttempt
  \/ ChatCompletion
  \/ ChatCompletionNext
  \/ TextToSpeech
  \/ Return

Spec == Init /\ [][Next]_vars

(* ------------------------------ observers ------------------------------ *)
EventsOfType(t) == SelectSeq(events, LAMBDA e : e.type = t)
NumRequests == Len(EventsOfType("request"))
Responses == EventsOfType("response")
Sleeps == EventsOfType("sleep")
Warnings == EventsOfType("warning")
LastStatus == IF Responses = <<>> THEN -1 ELSE Responses[Len(Responses)].arg
AllRateLimited == \A i \in 1..Len(Responses) : Responses[i].arg = 429

(* ------------------------------- claims -------------------------------- *)
ExpectedKind(status) ==
  CASE status = 401 -> "AuthenticationError"
    [] status = 402 -> "QuotaExceededError"
    [] status = 429 -> "RateLimitError"
    [] status = 400 -> "BadRequestError"
    [] OTHER -> "VeniceAPIError"

\* C1: whenever _handle_api_error classifies a failed response, the exception
\* it raises is the one of the status code (401 AuthenticationError, 402
\* QuotaExceededError, 429 RateLimitError, 400 BadRequestError, any other
\* VeniceAPIError), whatever the shape of the body, and never another one.
C1_KindByStatusOnly ==
  handled.called =>
    /\ handled.kind = ExpectedKind(handled.status)
    /\ handled.kind \in VeniceErrorKinds \ {"ConnectionError"}

\* C1 witness: a 402 whose body is JSON but not an object was classified.
C1_Witness ==
  /\ handled.called
  /\ handled.status = 402
  /\ handled.body.shape = "json_other"
  /\ handled.kind = "QuotaExceededError"

\* C2: with max_retries = 3 and every reply a 429, generate_image sends
\* exactly 3 requests and is then done with a failure result whose error is
\* the rate-limit message; it is done as soon as the third 429 arrives and
\* with max_retries = 3 no call ever sends a fourth request.
C2_ThreeAttemptsThenRateLimitFailure ==
  (op = "image" /\ max_retries = DefaultMaxRetries) =>
    /\ NumRequests <= 3
    /\ AllRateLimited =>
         /\ (pc = "done") <=> (NumRequests = 3)
         /\ pc = "done" =>
              /\ result.success = FALSE
              /\ result.error = "Maximum retries exceeded for rate limit"

\* C2 witness: the call has ended after three 429 replies.
C2_Witness ==
  /\ op = "image" /\ pc = "done" /\ max_retries = DefaultMaxRetries
  /\ NumRequests = 3 /\ AllRateLimited
  /\ result.success = FALSE

RECURSIVE Pow2(_)
Pow2(n) == IF n = 0 THEN 1 ELSE 2 * Pow2(n - 1)
\* min(2^n + 0.1 n, 60) seconds, in tenths of a second
ClaimedDelay(n) == Min(10 * Pow2(n) + n, 600)

\* C3: the backoff delay of attempt n is min(2^n + 0.1 n, 60) seconds, is
\* non-decreasing in n and never exceeds 60 seconds: for every attempt index
\* up to twice the largest retry count, and for every wait a call has made
\* (the i-th wait of a call is the delay of attempt i - 1).
C3_BackoffSchedule ==
  /\ \A n \in 0..(2 * MaxRetriesBound) :
       /\ ExponentialBackoff(n) = ClaimedDelay(n)
       /\ ExponentialBackoff(n) <= 600
       /\ ExponentialBackoff(n) <= ExponentialBackoff(n + 1)
  /\ \A i \in 1..Len(Sleeps) :
       /\ Sleeps[i].arg = ClaimedDelay(i - 1)
       /\ Sleeps[i].arg <= 600
       /\ i > 1 => Sleeps[i - 1].arg <= Sleeps[i].arg

\* C3 witness: a call has waited the capped delay (attempt 6: 64.6 s cut to 60).
C3_Witness ==
  /\ op = "image"
  /\ Len(Sleeps) >= 7
  /\ Sleeps[6].arg = 325
  /\ Sleeps[7].arg = 600

\* C4: chat_completion and text_to_speech send exactly one request per call
\* whatever the reply, and generate_image sends a further request only when
\* every earlier reply of the call had status 429.
C4_RetryOnlyAfter429OnlyForImages ==
  /\ op \in {"chat", "tts"} => NumRequests = 1 /\ Len(Responses) = 1
  /\ op = "image" =>
       /\ Len(Responses) = NumRequests
       /\ \A i \in 1..(Len(Responses) - 1) : Responses[i].arg = 429

\* C4 witness: a chat call that was answered 429 has ended after its one request.
C4_Witness ==
  /\ op = "chat" /\ pc = "done"
  /\ LastStatus = 429
  /\ NumRequests = 1

\* C5: in generate_image every request after the first comes right after one
\* blocking wait, which comes right after one warning, which comes right
\* after a 429 reply; the i-th wait lasts the backoff delay of attempt i - 1;
\* nothing but the next request follows a wait; and when the call is done
\* the number of waits (and of warnings) is the number of requests minus one.
C5_OneWaitAndWarningBeforeEachRetry ==
  op = "image" =>
    /\ \A p \in 1..Len(events) :
         /\ (events[p].type = "request" /\ p > 1) => events[p - 1].type = "sleep"
         /\ events[p].type = "sleep" =>
              /\ p > 2
              /\ events[p - 1].type = "warning"
              /\ events[p - 2] = Event("response", 429)
              /\ p < Len(events) => events[p + 1].type = "request"
         /\ events[p].type = "warning" =>
              /\ p < Len(events)
              /\ events[p + 1].type = "sleep"
    /\ \A i \in 1..Len(Sleeps) : Sleeps[i].arg = ExponentialBackoff(i - 1)
    /\ Len(Warnings) = Len(Sleeps)
    /\ pc = "image" => Len(Sleeps) = NumRequests /\ NumRequests = attempt
    /\ pc = "done" => Len(Sleeps) = NumRequests - 1

\* C5 witness: a call of three requests has ended on a non-retryable failure
\* after two waits.
C5_Witness ==
  /\ op = "image" /\ pc = "done"
  /\ NumRequests = 3
  /\ Len(Sleeps) = 2 /\ Len(Warnings) = 2
  /\ LastStatus = 401

\* position of the last reply among the events (0: none yet)
LastResponseAt ==
  IF Responses = <<>> THEN 0
  ELSE CHOOSE p \in 1..Len(events) :
         /\ events[p].type = "response"
         /\ \A q \in (p + 1)..Len(events) : events[q].type # "response"

\* C6: in generate_image a reply that is neither 200 nor 429 (401, 402, 400,
\* any other status) or a transport exception, on any attempt, ends the call
\* at once with a failure result that carries a message: no request, no
\* warning and no wait follows it.
C6_OtherFailuresEndTheCall ==
  (op = "image" /\ Responses # <<>> /\ LastStatus \notin {200, 429}) =>
    /\ pc = "done"
    /\ result.success = FALSE
    /\ result.error # ""
    /\ result.images = <<>>
    /\ \A q \in (LastResponseAt + 1)..Len(events) : events[q].type = "error"

\* C6 witness: a timeout on the third attempt, after two 429 replies.
C6_Witness ==
  /\ op = "image" /\ pc = "done"
  /\ NumRequests = 3
  /\ LastStatus = 0
  /\ last_reply.transport = "requests.Timeout"
  /\ result.error = "Request failed: Read timed out."

NoImagesMessage == "No images found in API response"

\* the last reply is a 200 whose payload has no 'images' key or an empty list
MalformedSuccess ==
  /\ last_reply.transport = "ok"
  /\ last_reply.status = 200
  /\ \/ last_reply.payload.shape = "no_images_key"
     \/ last_reply.payload.shape = "images" /\ last_reply.payload.images = <<>>

\* C7: a 200 reply of the image endpoint without an 'images' key or with an
\* empty image list makes generate_image return a failure whose error is the
\* no-images message; no failure on another status or on a transport
\* exception has that error; a 200 reply is never followed by a retry; and
\* every successful result carries at least one image.
C7_MalformedSuccessIsAFailure ==
  op = "image" =>
    /\ MalformedSuccess =>
         /\ pc = "done"
         /\ result.success = FALSE
         /\ result.error = NoImagesMessage
    /\ LastStatus = 200 => pc = "done"
    /\ (pc = "done" /\ LastStatus # 200) => result.error # NoImagesMessage
    /\ result.success => Len(result.images) >= 1

\* C7 witness: an empty image list arrived on the second attempt.
C7_Witness ==
  /\ op = "image" /\ pc = "done"
  /\ NumRequests = 2
  /\ MalformedSuccess
  /\ last_reply.payload.shape = "images"
  /\ result = ImageFailure(NoImagesMessage)

\* C8 as stated: the message is the body's error value when it carries one,
\* else the raw response text when that is non-empty, else 'HTTP <code>'.
C8_RawTextBeforeHttpCode ==
  handled.called =>
    handled.detail =
      IF handled.body.shape = "json_error" THEN handled.body.error
      ELSE IF handled.body.text # "" THEN handled.body.text
      ELSE "HTTP " \o ToString(handled.status)

\* C8, amended: the message is the body's error value when the body parses
\* as a JSON object with an 'error' field; 'HTTP <code>' when it parses as a
\* JSON object without one; otherwise (not JSON, or JSON that is not an
\* object) the raw response text when that is non-empty, else 'HTTP <code>'.
\* The exception's text ends with that message.
C8_MessagePrecedence ==
  handled.called =>
    /\ handled.detail =
         CASE handled.body.shape = "json_error" -> handled.body.error
           [] handled.body.shape = "json_object" -> "HTTP " \o ToString(handled.status)
           [] OTHER -> IF handled.body.text # "" THEN handled.body.text
                       ELSE "HTTP " \o ToString(handled.status)
    /\ \E prefix \in {"Invalid API key or Pro subscription required: ",
                       "Insufficient balance or quota exceeded: ",
                       "Rate limit exceeded: ", "Invalid parameters: ",
                       "API Error " \o ToString(handled.status) \o ": "} :
         handled.msg = prefix \o handled.detail

\* C8 witness: a JSON object without 'error' got 'HTTP 500' although its
\* text is not empty.
C8_Witness ==
  /\ handled.called
  /\ handled.status = 500
  /\ handled.body.shape = "json_object"
  /\ handled.body.text # ""
  /\ handled.detail = "HTTP 500"

\* the current call got a 200 on the chat endpoint and reads its lines
ChatStreaming == op = "chat" /\ last_reply.transport = "ok" /\ last_reply.status = 200

\* index of the first line of kind k in ls, Len(ls) + 1 when there is none
FirstOf(ls, kinds) ==
  IF \E i \in 1..Len(ls) : ls[i].kind \in kinds
  THEN CHOOSE i \in 1..Len(ls) :
         /\ ls[i].kind \in kinds
         /\ \A j \in 1..(i - 1) : ls[j].kind \notin kinds
  ELSE Len(ls) + 1
FirstDone(ls) == FirstOf(ls, {"done"})
\* where consumption ends: at the sentinel, or at a line that raises
FirstStop(ls) == FirstOf(ls, {"done", "badshape", "undecodable"})

\* the content fragments of the lines ls[1..k-1], in order
FragmentsBefore(ls, k) ==
  LET head == SubSeq(ls, 1, Min(k - 1, Len(ls)))
      content == SelectSeq(head, LAMBDA l : l.kind = "content")
  IN [i \in 1..Len(content) |-> [type |-> "content", text |-> content[i].frag]]

ContentOf(ys) == SelectSeq(ys, LAMBDA y : y.type = "content")

\* consumption does not fail: no line before the sentinel raises, and the
\* stream reaches the sentinel or closes normally
CleanStream ==
  /\ FirstStop(lines) = FirstDone(lines)
  /\ FirstDone(lines) > Len(lines) => stream_end = "eof"

Ignored(line) == line.kind \in {"blank", "noprefix", "badjson"}
Stripped(ls) == SelectSeq(ls, LAMBDA l : ~Ignored(l))

\* C10: blank lines, lines without the data prefix and data lines whose
\* payload is not JSON are skipped without ending the stream: what the
\* generator yields is what it yields on the same stream with those lines
\* taken out (so every later fragment is still yielded and no error fragment
\* stands for a skipped line), each of them is read and passed, and only the
\* unparseable payloads are logged, one warning each.
C10_SkippedLinesChangeNothing ==
  ChatStreaming =>
    /\ pc = "done" => yielded = ChatRun(Stripped(lines), stream_end)
    /\ \A i \in 1..idx :
         Ignored(lines[i]) => (i < idx \/ pc = "chat" \/ i = Len(lines))
    /\ Len(Warnings) =
         Len(SelectSeq(SubSeq(lines, 1, idx), LAMBDA l : l.kind = "badjson"))

\* C10 witness: an unparseable payload and a line without prefix, then 'A'.
C10_Witness ==
  /\ ChatStreaming /\ pc = "done"
  /\ lines = <<ChatLine("badjson", ""), ChatLine("noprefix", ""), ChatLine("content", "A")>>
  /\ yielded = <<Content("A")>>
  /\ Len(Warnings) = 1

\* the chat call fails: at the request, or while its lines are consumed
ChatFails ==
  /\ op = "chat"
  /\ \/ last_reply.transport # "ok"
     \/ last_reply.status # 200
     \/ FirstStop(lines) < FirstDone(lines)
     \/ FirstDone(lines) > Len(lines) /\ stream_end # "eof"

ErrorsOf(ys) == SelectSeq(ys, LAMBDA y : y.type = "error")

\* C11: whatever fails in a chat call (a non-200 status, a timeout, a
\* connection failure, a line that raises, a read that breaks), nothing is
\* raised to the consumer and the generator ends having yielded exactly one
\* error fragment, as its last item, after every content fragment; a call in
\* which nothing fails yields no error fragment; and at no point is an error
\* fragment followed by another item.
C11_FailureIsOneLastFragment ==
  op = "chat" =>
    /\ result.raised = ""
    /\ \A i \in 1..(Len(yielded) - 1) : yielded[i].type = "content"
    /\ pc = "done" =>
         IF ChatFails
         THEN /\ Len(ErrorsOf(yielded)) = 1
              /\ yielded[Len(yielded)].type = "error"
              /\ yielded[Len(yielded)].text # ""
              /\ ContentOf(yielded) = SubSeq(yielded, 1, Len(yielded) - 1)
         ELSE ErrorsOf(yielded) = <<>>
    /\ pc = "chat" => ErrorsOf(yielded) = <<>>

\* C11 witness: 'A' was yielded, then a payload of the wrong shape raised
\* TypeError in the loop; the error fragment follows 'A'.
C11_Witness ==
  /\ ChatStreaming /\ pc = "done"
  /\ lines = <<ChatLine("content", "A"), ChatLine("badshape", ""), ChatLine("content", "B")>>
  /\ Len(yielded) = 2
  /\ yielded[1] = Content("A")
  /\ yielded[2].type = "error"
  /\ result.raised = ""

\* C12: text_to_speech returns the audio only on status 200; on any other
\* status it raises, after its single request, the exception
\* _handle_api_error raised for that status, unchanged (kind and text); a
\* timeout or connection failure is raised as ConnectionError, and nothing
\* else is ever raised for one.
C12_SpeechRaisesTypedErrors ==
  (op = "tts" /\ pc = "done") =>
    /\ NumRequests = 1
    /\ (result.success /\ result.audio # "") <=>
         (last_reply.transport = "ok" /\ last_reply.status = 200)
    /\ result.success => result.raised = "" /\ result.audio = last_reply.content
    /\ (last_reply.transport = "ok" /\ last_reply.status # 200) =>
         /\ result.raised = ExpectedKind(last_reply.status)
         /\ handled.called
         /\ result.raised = handled.kind
         /\ result.error = handled.msg
         /\ result.audio = ""
    /\ last_reply.transport # "ok" =>
         /\ result.raised = "ConnectionError"
         /\ result.error = "Request failed: " \o TransportText(last_reply.transport)
         /\ result.audio = ""

\* C12 witness: a timeout was raised as ConnectionError.
C12_Witness ==
  /\ op = "tts" /\ pc = "done"
  /\ last_reply.transport = "requests.Timeout"
  /\ result.raised = "ConnectionError"

\* The last reply of the image endpoint is a 200 whose 'images' is a
\* non-empty list of strings.
GoodImageReply ==
  /\ last_reply.transport = "ok"
  /\ last_reply.status = 200
  /\ last_reply.payload.shape = "images"
  /\ last_reply.payload.images # <<>>

\* Every reply before the last one was a 429.
EarlierAllRateLimited ==
  \A i \in 1..(Len(Responses) - 1) : Responses[i].arg = 429

\* C21: generate_image returns success exactly when some attempt within
\* max_retries got a 200 with a non-empty image list after nothing but 429
\* replies; the result then holds the images of that reply, one for one and
\* in order, and is the result a first-attempt success would have given: no
\* error text and nothing of the earlier 429 replies.
C21_SuccessIsTheFirstNon429Reply ==
  op = "image" =>
    /\ GoodImageReply => pc = "done"
    /\ pc = "done" =>
         /\ result.success <=>
              /\ GoodImageReply
              /\ EarlierAllRateLimited
              /\ Len(Responses) <= max_retries
         /\ result.success =>
              /\ Len(result.images) = Len(last_reply.payload.images)
              /\ \A i \in 1..Len(result.images) :
                   result.images[i].b64 = last_reply.payload.images[i].b64
              /\ result = [NoResult EXCEPT !.success = TRUE, !.images = result.images]

\* C21 witness: two 429 replies, then a 200 with two images, returned.
C21_Witness ==
  /\ op = "image" /\ pc = "done"
  /\ result.success
  /\ Len(Responses) = 3
  /\ Responses[1].arg = 429 /\ Responses[2].arg = 429
  /\ Len(result.images) = 2

\* The last reply came with a status other than 200.
Not200 == last_reply.transport = "ok" /\ last_reply.status # 200

\* The last reply came with another 2xx status.
Other2xx == Not200 /\ 200 < last_reply.status /\ last_reply.status < 300

\* C29: in the three operations only a 200 is a success.  A reply with any
\* other status goes to _handle_api_error (but for the 429 that
\* generate_image treats itself), which raises VeniceAPIError for another
\* 2xx status; chat_completion then yields one error fragment and no
\* content, generate_image returns (unless it retries a 429) a failure
\* without images, text_to_speech raises and returns no audio, whatever the
\* reply carries; and a success is always the result of a 200.
C29_Only200IsSuccess ==
  /\ Not200 =>
       /\ handled.called \/ (op = "image" /\ last_reply.status = 429)
       /\ Other2xx => handled.kind = "VeniceAPIError"
       /\ op = "chat" =>
            /\ pc = "done"
            /\ ContentOf(yielded) = <<>>
            /\ Len(ErrorsOf(yielded)) = 1
       /\ op = "image" =>
            /\ pc = "done" \/ last_reply.status = 429
            /\ pc = "done" => ~result.success /\ result.images = <<>> /\ result.error # ""
       /\ op = "tts" =>
            /\ pc = "done"
            /\ result.raised # "" /\ ~result.success /\ result.audio = ""
  /\ (pc = "done" /\ result.success) => last_reply.transport = "ok" /\ last_reply.status = 200
  /\ (op = "chat" /\ ContentOf(yielded) # <<>>) =>
       last_reply.transport = "ok" /\ last_reply.status = 200

\* C29 witness: a 201 that carries two images was returned as a failure.
C29_Witness ==
  /\ op = "image" /\ pc = "done"
  /\ last_reply.transport = "ok" /\ last_reply.status = 201
  /\ Len(last_reply.payload.images) = 2
  /\ ~result.success /\ result.images = <<>>

(* ======================================================================= *)
(* The card-listing tool, src/ebay_card_lister.py.  Texts are the          *)
(* program's strings; a price is a number of cents.                        *)
(* ======================================================================= *)

(* ------------------------------- strings ------------------------------- *)
\* Python's  t in s
Contains(s, t) ==
  \E k \in 1..(Len(s) - Len(t) + 1) : SubSeq(s, k, k + Len(t) - 1) = t

UpperCase == "ABCDEFGHIJKLMNOPQRSTUVWXYZ"
LowerCase == "abcdefghijklmnopqrstuvwxyz"
LowerChar(c) ==
  IF \E k \in 1..Len(UpperCase) : SubSeq(UpperCase, k, k) = c
  THEN LET k == CHOOSE k \in 1..Len(UpperCase) : SubSeq(UpperCase, k, k) = c
       IN SubSeq(LowerCase, k, k)
  ELSE c

\* str.lower()
RECURSIVE Lower(_)
Lower(s) == IF s = "" THEN "" ELSE LowerChar(SubSeq(s, 1, 1)) \o Lower(Tail(s))

\* str.strip()
RECURSIVE Strip(_)
Strip(s) ==
  IF s = "" THEN ""
  ELSE IF SubSeq(s, 1, 1) = " " THEN Strip(Tail(s))
  ELSE IF SubSeq(s, Len(s), Len(s)) = " " THEN Strip(SubSeq(s, 1, Len(s) - 1))
  ELSE s

\* " ".join(parts), and sep.join(parts) in general
RECURSIVE Join(_, _)
Join(parts, sep) ==
  IF parts = <<>> THEN ""
  ELSE IF Len(parts) = 1 THEN parts[1]
  ELSE parts[1] \o sep \o Join(Tail(parts), sep)

\* filter(None, parts): the non-empty strings of parts
NonEmpty(parts) == SelectSeq(parts, LAMBDA x : x # "")

\* n copies of the text s
RECURSIVE Rep(_, _)
Rep(s, n) == IF n = 0 THEN "" ELSE s \o Rep(s, n - 1)

\* s[:n]
Prefix(s, n) == SubSeq(s, 1, Min(n, Len(s)))

(* ----------------------------- card records ---------------------------- *)
\* A record of card details, as the prompts or a CSV row with every column
\* of the template deliver it (the columns no modelled method reads are
\* left out).
Card(year, card_set, player, card_number, attributes, grader, grade) ==
  [year |-> year, card_set |-> card_set, player |-> player,
   card_number |-> card_number, attributes |-> attributes,
   grader |-> grader, grade |-> grade,
   parallel_variety |-> "", insert_set |-> "", card_type |-> "",
   autograph_auth |-> ""]

\* What a method call left behind: its return value, or the exception.
Value(v) == [value |-> v, raised |-> ""]
RaisedBy(kind) == [value |-> <<>>, raised |-> kind]

(* -------------------------- generate_seo_title ------------------------- *)
\* lines 788-818: the parts of the title, in order
TitleParts(details) ==
  (IF details.year # "" THEN <<details.year>> ELSE <<>>)
  \o (IF details.card_set # "" THEN <<details.card_set>> ELSE <<>>)
  \o (IF details.player # "" THEN <<details.player>> ELSE <<>>)
  \o (IF details.card_number # "" THEN <<"#" \o details.card_number>> ELSE <<>>)
  \o (IF details.attributes # "" THEN <<details.attributes>> ELSE <<>>)
  \o (IF details.grader # "" THEN <<details.grader>> ELSE <<>>)
  \o (IF details.grade # "" /\ details.grader # ""
      THEN <<"Grade " \o details.grade>>
      ELSE IF details.grade # "" THEN <<details.grade>> ELSE <<>>)

\* lines 837-842: year, set and player alone
EssentialTitle(details) ==
  Join(NonEmpty(<<details.year, details.card_set, details.player>>), " ")

\* Mutant: the last resort of lines 846-848 is left out.
generate_seo_title_without_last_resort(details) ==
  LET title_parts == TitleParts(details)
      title == Join(title_parts, " ")
      but_last == SubSeq(title_parts, 1, Len(title_parts) - 1)
      title_alt == Join(but_last \o <<details.grade>>, " ")
      ungraded == IF details.grade # "" /\ details.grader # ""
                  THEN IF Len(title_alt) <= 80 THEN title_alt ELSE Join(but_last, " ")
                  ELSE title
  IN IF Len(title) <= 80 THEN title
     ELSE IF Len(ungraded) <= 80 THEN ungraded
     ELSE IF Len(EssentialTitle(details)) <= 80 THEN EssentialTitle(details)
     ELSE ungraded

\* generate_seo_title, lines 820-852
generate_seo_title(details) ==
  LET title_parts == TitleParts(details)
      title == Join(title_parts, " ")
      but_last == SubSeq(title_parts, 1, Len(title_parts) - 1)
      \* lines 826-834: without the "Grade" prefix, or without the grade
      title_alt == Join(but_last \o <<details.grade>>, " ")
      ungraded == IF details.grade # "" /\ details.grader # ""
                  THEN IF Len(title_alt) <= 80 THEN title_alt ELSE Join(but_last, " ")
                  ELSE title
  IN IF Len(title) <= 80 THEN title
     ELSE IF Len(ungraded) <= 80 THEN ungraded
     ELSE IF Len(EssentialTitle(details)) <= 80 THEN EssentialTitle(details)
     ELSE Prefix(ungraded, 77) \o "..."

\* The records generate_seo_title is applied to: every combination of a
\* short, a long or no text per field, so that each shortening step of
\* lines 823-848 is needed for some record.
TitleCards ==
  {Card(year, card_set, player, card_number, attributes, g[1], g[2]) :
     year \in {"", "1986"},
     card_set \in {"", "Fleer", "Topps " \o Rep("Chrome ", 5), "Panini " \o Rep("Prizm ", 11)},
     player \in {"", "Michael Jordan", "Giannis " \o Rep("Sina Ugo ", 4) \o "Antetokounmpo"},
     card_number \in {"", "57"},
     attributes \in {"", "Rookie RC", "Rookie RC Auto Patch Refractor /99"},
     g \in {<<"", "">>, <<"PSA", "10">>, <<"", "10">>}}

\* a caller applies generate_seo_title to a record
GenerateSeoTitle ==
  /\ method = "none"
  /\ \E details \in TitleCards :
       /\ given' = details
       /\ returned' = Value(generate_seo_title(details))
  /\ method' = "generate_seo_title"
  /\ UNCHANGED <<clientVars, listerVars, appVars, sessionVars>>

\* the title is not the full composition of all non-empty parts
Shortened ==
  method = "generate_seo_title" /\ returned.value # Join(TitleParts(given), " ")

HasYearSetPlayer ==
  /\ Contains(returned.value, given.year)
  /\ Contains(returned.value, given.card_set)
  /\ Contains(returned.value, given.player)

\* C14 as stated: the title has at most 80 characters, and a shortened title
\* still contains the year, the set and the player.
C14_ShortenedKeepsYearSetPlayer ==
  method = "generate_seo_title" =>
    /\ Len(returned.value) <= 80
    /\ (Shortened => HasYearSetPlayer)

\* C14, amended: the title has at most 80 characters; a shortened title still
\* contains the year, the set and the player when these three, joined by
\* spaces, fit into 80 characters; when they do not fit, the title is the
\* first 77 characters of the full composition followed by "...".
C14_ShortenedKeepsEssentialsThatFit ==
  method = "generate_seo_title" =>
    /\ Len(returned.value) <= 80
    /\ (Shortened /\ Len(EssentialTitle(given)) <= 80 => HasYearSetPlayer)
    /\ (Shortened /\ Len(EssentialTitle(given)) > 80 =>
          returned.value = Prefix(Join(TitleParts(given), " "), 77) \o "...")

\* a title too long with its attributes fell back to year, set and player
C14_Witness ==
  /\ Shortened
  /\ given.attributes # ""
  /\ returned.value = EssentialTitle(given)
  /\ HasYearSetPlayer

(* --------------------------- keyword tables ---------------------------- *)
\* The module's dictionaries, as the sequence of their entries in
\* declaration order (the order a Python dict is iterated in).
Entry(name, keywords) == [name |-> name, keywords |-> keywords]

\* lines 177-212
EBAY_FEATURES == <<
  Entry("10th Anniversary Issue", <<"10th", "anniversary">>),
  Entry("1st Edition", <<"1st edition", "first edition">>),
  Entry("60th Anniversary Issue", <<"60th", "anniversary">>),
  Entry("65th Anniversary Issue", <<"65th", "anniversary">>),
  Entry("Base Set", <<"base", "base set">>),
  Entry("Box Topper", <<"box topper", "topper">>),
  Entry("Chase", <<"chase">>),
  Entry("Checklist", <<"checklist">>),
  Entry("Collectors Edition", <<"collectors edition", "collector">>),
  Entry("Digital", <<"digital">>),
  Entry("Embossed", <<"embossed">>),
  Entry("Exchange/Redemption", <<"exchange", "redemption", "redeem">>),
  Entry("Exclusive", <<"exclusive">>),
  Entry("Framed", <<"framed">>),
  Entry("Hologram", <<"hologram", "holo">>),
  Entry("Insert", <<"insert">>),
  Entry("Lenticular", <<"lenticular">>),
  Entry("Limited Edition", <<"limited edition", "limited", "le">>),
  Entry("Memorabilia", <<"memorabilia", "mem", "patch", "jersey", "relic">>),
  Entry("Miscut", <<"miscut">>),
  Entry("Misprint", <<"misprint">>),
  Entry("One of One", <<"1/1", "one of one", "1of1">>),
  Entry("Parallel/Variety",
        <<"parallel", "variety", "prizm", "refractor", "gold", "silver", "rainbow">>),
  Entry("Printing Plate", <<"printing plate", "plate">>),
  Entry("Promo", <<"promo", "promotional">>),
  Entry("Puzzle", <<"puzzle">>),
  Entry("Rookie", <<"rookie", "rc">>),
  Entry("Sell Sheet", <<"sell sheet">>),
  Entry("Serial Numbered", <<"serial", "numbered", "/", "of">>),
  Entry("Short Print", <<"short print", "sp">>),
  Entry("Sketch", <<"sketch">>),
  Entry("Stamped", <<"stamped">>),
  Entry("Sticker", <<"sticker">>),
  Entry("AU", <<"auto", "autograph", "au", "signed", "signature">>)
>>

\* lines 215-230
EBAY_CARD_THICKNESS == <<
  Entry("20 Pt.", <<"20pt", "20 pt", "thin", "paper">>),
  Entry("35 Pt.", <<"35pt", "35 pt", "regular">>),
  Entry("55 Pt.", <<"55pt", "55 pt", "standard", "normal">>),
  Entry("59 Pt.", <<"59pt", "59 pt">>),
  Entry("75 Pt.", <<"75pt", "75 pt", "thick">>),
  Entry("79 Pt.", <<"79pt", "79 pt">>),
  Entry("100 Pt.", <<"100pt", "100 pt", "very thick">>),
  Entry("108 Pt.", <<"108pt", "108 pt">>),
  Entry("130 Pt.", <<"130pt", "130 pt", "extra thick">>),
  Entry("138 Pt.", <<"138pt", "138 pt">>),
  Entry("180 Pt.", <<"180pt", "180 pt", "super thick">>),
  Entry("197 Pt.", <<"197pt", "197 pt">>),
  Entry("240 Pt.", <<"240pt", "240 pt", "ultra thick">>),
  Entry("360 Pt.", <<"360pt", "360 pt", "maximum thick">>)
>>

\* lines 233-236
EBAY_ORIGINAL_REPRINT == <<
  Entry("Original", <<"original", "authentic", "genuine", "real">>),
  Entry("Licensed Reprint", <<"reprint", "licensed reprint", "reproduction", "copy">>)
>>

\* lines 353-373
EBAY_AUTOGRAPH_AUTH == <<
  Entry("Beckett Authentication Services (BAS)",
        <<"beckett", "bas", "beckett authentication">>),
  Entry("Bowman", <<"bowman">>),
  Entry("Certified Guaranty Company (CGC)", <<"cgc", "certified guaranty">>),
  Entry("Certified Sports Guaranty (CSG)", <<"csg", "certified sports">>),
  Entry("Donruss", <<"donruss">>),
  Entry("Fanatics Authentic", <<"fanatics", "fanatics authentic">>),
  Entry("Fleer", <<"fleer">>),
  Entry("James Spence Authentication (JSA)", <<"jsa", "james spence", "spence">>),
  Entry("Leaf", <<"leaf">>),
  Entry("Panini Authentic", <<"panini", "panini authentic">>),
  Entry("Professional Sports Authenticator (PSA)", <<"psa", "professional sports">>),
  Entry("PROVA Group", <<"prova", "prova group">>),
  Entry("Score", <<"score">>),
  Entry("Sportscard Guaranty Corporation (SGC)", <<"sgc", "sportscard guaranty">>),
  Entry("Sports Memorabilia", <<"sports memorabilia">>),
  Entry("Steiner Sports", <<"steiner", "steiner sports">>),
  Entry("Topps", <<"topps">>),
  Entry("TRISTAR Productions", <<"tristar", "tristar productions">>),
  Entry("Upper Deck", <<"upper deck", "upperdeck">>)
>>

\* lines 376-380
EBAY_AUTOGRAPH_FORMAT == <<
  Entry("Cut", <<"cut", "cut signature">>),
  Entry("Hard Signed", <<"hard signed", "hard", "on-card", "on card">>),
  Entry("Label or Sticker",
        <<"label", "sticker", "authentication sticker", "auth sticker">>)
>>

\* lines 383-457
MAJOR_PARALLEL_VARIETIES == <<
  Entry("[Base]", <<"base", "base card">>),
  Entry("Black", <<"black">>),
  Entry("Blue", <<"blue">>),
  Entry("Gold", <<"gold">>),
  Entry("Green", <<"green">>),
  Entry("Orange", <<"orange">>),
  Entry("Pink", <<"pink">>),
  Entry("Purple", <<"purple">>),
  Entry("Red", <<"red">>),
  Entry("Silver", <<"silver">>),
  Entry("White", <<"white">>),
  Entry("Yellow", <<"yellow">>),
  Entry("Refractor", <<"refractor">>),
  Entry("Black Refractor", <<"black refractor">>),
  Entry("Blue Refractor", <<"blue refractor">>),
  Entry("Gold Refractor", <<"gold refractor">>),
  Entry("Green Refractor", <<"green refractor">>),
  Entry("Orange Refractor", <<"orange refractor">>),
  Entry("Pink Refractor", <<"pink refractor">>),
  Entry("Purple Refractor", <<"purple refractor">>),
  Entry("Red Refractor", <<"red refractor">>),
  Entry("Silver Refractor", <<"silver refractor">>),
  Entry("White Refractor", <<"white refractor">>),
  Entry("Prizm", <<"prizm">>),
  Entry("Black Prizm", <<"black prizm">>),
  Entry("Blue Prizm", <<"blue prizm">>),
  Entry("Gold Prizm", <<"gold prizm">>),
  Entry("Green Prizm", <<"green prizm">>),
  Entry("Orange Prizm", <<"orange prizm">>),
  Entry("Pink Prizm", <<"pink prizm">>),
  Entry("Purple Prizm", <<"purple prizm">>),
  Entry("Red Prizm", <<"red prizm">>),
  Entry("Silver Prizm", <<"silver prizm">>),
  Entry("White Prizm", <<"white prizm">>),
  Entry("Cracked Ice", <<"cracked ice">>),
  Entry("Disco", <<"disco">>),
  Entry("Holographic", <<"holographic", "holo">>),
  Entry("Rainbow", <<"rainbow">>),
  Entry("Shimmer", <<"shimmer">>),
  Entry("Spectrum", <<"spectrum">>),
  Entry("Serial Numbered", <<"/", "of", "numbered", "serial">>),
  Entry("1st Edition", <<"1st edition", "first edition">>),
  Entry("Limited Edition", <<"limited edition", "limited">>),
  Entry("Chrome", <<"chrome">>),
  Entry("Finite", <<"finite">>),
  Entry("Prime", <<"prime">>),
  Entry("Mojo", <<"mojo">>),
  Entry("Mosaic", <<"mosaic">>),
  Entry("Pulsar", <<"pulsar">>),
  Entry("Wave", <<"wave">>),
  Entry("Flux Auto Red", <<"flux auto red">>),
  Entry("Flux Auto", <<"flux auto">>),
  Entry("Flux", <<"flux">>),
  Entry("Auto", <<"auto", "autograph">>),
  Entry("Patch", <<"patch">>),
  Entry("Memorabilia", <<"memorabilia", "mem", "relic">>),
  Entry("Jersey", <<"jersey">>),
  Entry("Rookie", <<"rookie", "rc">>)
>>

(* ---------------------------- detect_features -------------------------- *)
\* any(keyword in text for keyword in keywords)
AnyOf(text, keywords) ==
  \E k \in 1..Len(keywords) : Contains(text, keywords[k])

\* lines 919-920: append the name unless the list has it
AppendNew(list, name) ==
  IF \E k \in 1..Len(list) : list[k] = name THEN list ELSE Append(list, name)

\* lines 916-921: the loop over EBAY_FEATURES, from entry k on
RECURSIVE FeatureLoop(_, _, _)
FeatureLoop(text, k, detected) ==
  IF k > Len(EBAY_FEATURES) THEN detected
  ELSE FeatureLoop(text, k + 1,
                   IF AnyOf(text, EBAY_FEATURES[k].keywords)
                   THEN AppendNew(detected, EBAY_FEATURES[k].name)
                   ELSE detected)

\* re.search(r'\d+/\d+', text): a digit, a slash, a digit
HasSerialPattern(text) ==
  \E k \in 2..(Len(text) - 1) :
    /\ SubSeq(text, k, k) = "/"
    /\ Contains("0123456789", SubSeq(text, k - 1, k - 1))
    /\ Contains("0123456789", SubSeq(text, k + 1, k + 1))

\* lines 916-944, for a search text
FeaturesIn(search_text) ==
  LET looped == FeatureLoop(search_text, 1, <<>>)
      serial == IF /\ AnyOf(search_text, <<"/", "of">>)
                   /\ ~Contains(search_text, "serial")
                   /\ HasSerialPattern(search_text)
                THEN AppendNew(looped, "Serial Numbered") ELSE looped
      mem == IF AnyOf(search_text, <<"patch", "jersey", "relic", "memorabilia", "mem">>)
             THEN AppendNew(serial, "Memorabilia") ELSE serial
  IN IF AnyOf(search_text, <<"auto", "autograph", "au", "signed", "signature">>)
     THEN AppendNew(mem, "AU") ELSE mem

\* Mutant: the text is searched as typed, not lower-cased.
detect_features_case_sensitive(details) ==
  FeaturesIn(details.attributes \o " " \o details.parallel_variety
             \o " " \o details.insert_set)

\* detect_features, lines 905-944
detect_features(details) ==
  FeaturesIn(Lower(Lower(details.attributes) \o " " \o Lower(details.parallel_variety)
                   \o " " \o Lower(details.insert_set)))

(* -------------------------- keyword-table lookups ---------------------- *)
\* Mutant: the last entry with a keyword in the text wins.
LastMatch(table, text, default) ==
  LET hits == {k \in 1..Len(table) : AnyOf(text, table[k].keywords)}
  IN IF hits = {} THEN default
     ELSE table[CHOOSE k \in hits : \A j \in hits : j <= k].name

\* the nested loops of lines 952-955 (1026-1029, 1012-1015, 966-969,
\* 987-990), from entry k on: return at the first keyword found
RECURSIVE FirstMatchFrom(_, _, _, _)
FirstMatchFrom(table, text, default, k) ==
  IF k > Len(table) THEN default
  ELSE IF AnyOf(text, table[k].keywords) THEN table[k].name
  ELSE FirstMatchFrom(table, text, default, k + 1)

FirstMatch(table, text, default) == FirstMatchFrom(table, text, default, 1)

\* attributes, parallel_variety and insert_set, lower-cased (lines 1009, 1023)
SearchText(details) ==
  Lower(details.attributes \o " " \o details.parallel_variety
        \o " " \o details.insert_set)

detect_card_thickness(details) ==
  FirstMatch(EBAY_CARD_THICKNESS,
             Lower(details.attributes \o " " \o details.parallel_variety \o " "
                   \o details.insert_set \o " " \o details.card_type),
             "55 Pt.")

detect_original_reprint(details) ==
  FirstMatch(EBAY_ORIGINAL_REPRINT,
             Lower(details.attributes \o " " \o details.card_set \o " "
                   \o details.parallel_variety),
             "Original")

detect_autograph_auth(details) ==
  FirstMatch(EBAY_AUTOGRAPH_AUTH, Lower(details.autograph_auth), "Panini Authentic")

detect_autograph_format(details) ==
  FirstMatch(EBAY_AUTOGRAPH_FORMAT, SearchText(details), "Label or Sticker")

\* lines 1031-1036: without a match, "[Base]" for a card with neither a
\* parallel nor an insert set, else the parallel as typed
detect_parallel_variety(details) ==
  FirstMatch(MAJOR_PARALLEL_VARIETIES, SearchText(details),
             IF details.parallel_variety = "" /\ details.insert_set = ""
             THEN "[Base]" ELSE details.parallel_variety)

\* The records the detect_* methods are applied to.
DetailCards ==
  {[Card("1986", card_set, "Michael Jordan", "57", attributes, "", "")
      EXCEPT !.parallel_variety = parallel_variety, !.insert_set = insert_set,
             !.card_type = card_type, !.autograph_auth = autograph_auth] :
     card_set \in {"Fleer", "Topps Archives Reprint"},
     attributes \in {"", "Rookie RC Auto /99", "On-Card Auto", "Game-Used Patch 25/99",
                     "1/1 Superfractor", "SP Holo", "Cut Signature Relic"},
     parallel_variety \in {"", "Red Prizm", "Gold Refractor", "Aqua"},
     insert_set \in {"", "Flux Auto Red"},
     card_type \in {"", "Thick 130pt Jumbo"},
     autograph_auth \in {"", "PSA/DNA", "Upper Deck Authenticated"}}

LookupMethods ==
  {"detect_card_thickness", "detect_original_reprint", "detect_autograph_auth",
   "detect_autograph_format", "detect_parallel_variety"}

\* generate_item_specifics applies the detect_* methods to a record
DetectFeatures ==
  /\ method = "none"
  /\ \E details \in DetailCards :
       /\ given' = details
       /\ returned' = Value(detect_features(details))
  /\ method' = "detect_features"
  /\ UNCHANGED <<clientVars, listerVars, appVars, sessionVars>>

DetectFromTable ==
  /\ method = "none"
  /\ \E details \in DetailCards, m \in LookupMethods :
       /\ given' = details
       /\ method' = m
       /\ returned' = Value(CASE m = "detect_card_thickness" -> detect_card_thickness(details)
                              [] m = "detect_original_reprint" -> detect_original_reprint(details)
                              [] m = "detect_autograph_auth" -> detect_autograph_auth(details)
                              [] m = "detect_autograph_format" -> detect_autograph_format(details)
                              [] m = "detect_parallel_variety" -> detect_parallel_variety(details))
  /\ UNCHANGED <<clientVars, listerVars, appVars, sessionVars>>

\* the set of the elements of a list
Elements(list) == {list[k] : k \in 1..Len(list)}

\* C15: detect_features lists a feature whenever one of its keywords is a
\* substring of the lower-cased attributes, parallel_variety and insert_set,
\* lists no feature twice, and finds Rookie, AU and Serial Numbered in the
\* attributes 'Rookie RC Auto /99'.
C15_FeaturesByKeywordOnce ==
  method = "detect_features" =>
    LET text == Lower(given.attributes) \o " " \o Lower(given.parallel_variety)
                \o " " \o Lower(given.insert_set)
        found == returned.value
    IN /\ \A k \in 1..Len(EBAY_FEATURES) :
            (\E w \in Elements(EBAY_FEATURES[k].keywords) : Contains(text, w))
              => EBAY_FEATURES[k].name \in Elements(found)
       /\ \A i, j \in 1..Len(found) : found[i] = found[j] => i = j
       /\ (given.attributes = "Rookie RC Auto /99"
             => {"Rookie", "AU", "Serial Numbered"} \subseteq Elements(found))

\* the record of the example, with nothing but its attributes
C15_Witness ==
  /\ method = "detect_features"
  /\ given.attributes = "Rookie RC Auto /99"
  /\ given.parallel_variety = "" /\ given.insert_set = ""
  /\ Elements(returned.value) = {"Rookie", "AU", "Serial Numbered"}

\* the table, the search text and the default of a lookup method
LookupTable(m) ==
  CASE m = "detect_card_thickness" -> EBAY_CARD_THICKNESS
    [] m = "detect_original_reprint" -> EBAY_ORIGINAL_REPRINT
    [] m = "detect_autograph_auth" -> EBAY_AUTOGRAPH_AUTH
    [] m = "detect_autograph_format" -> EBAY_AUTOGRAPH_FORMAT
    [] m = "detect_parallel_variety" -> MAJOR_PARALLEL_VARIETIES

LookupText(m, d) ==
  CASE m = "detect_card_thickness" ->
         Lower(d.attributes) \o " " \o Lower(d.parallel_variety) \o " "
         \o Lower(d.insert_set) \o " " \o Lower(d.card_type)
    [] m = "detect_original_reprint" ->
         Lower(d.attributes) \o " " \o Lower(d.card_set) \o " "
         \o Lower(d.parallel_variety)
    [] m = "detect_autograph_auth" -> Lower(d.autograph_auth)
    [] OTHER ->
         Lower(d.attributes) \o " " \o Lower(d.parallel_variety) \o " "
         \o Lower(d.insert_set)

LookupDefaults(m, d) ==
  CASE m = "detect_card_thickness" -> {"55 Pt."}
    [] m = "detect_original_reprint" -> {"Original"}
    [] m = "detect_autograph_auth" -> {"Panini Authentic"}
    [] m = "detect_autograph_format" -> {"Label or Sticker"}
    [] m = "detect_parallel_variety" -> {"[Base]", d.parallel_variety}

\* the positions of the table entries with a keyword in the search text
Hits(m, d) ==
  LET table == LookupTable(m)
      text == LookupText(m, d)
  IN {k \in 1..Len(table) : \E w \in Elements(table[k].keywords) : Contains(text, w)}

MoreSpecific(table, text, j, k) ==
  \E wj \in Elements(table[j].keywords), wk \in Elements(table[k].keywords) :
    /\ Contains(text, wj) /\ Contains(text, wk)
    /\ wj # wk /\ Contains(wj, wk)

\* C23: detect_parallel_variety returns the more specific entry: no entry
\* matching the search text is a more specific match than the entry that is
\* returned.
C23_MoreSpecificMatchWins ==
  method = "detect_parallel_variety" =>
    LET table == MAJOR_PARALLEL_VARIETIES
        text == LookupText(method, given)
        hits == Hits(method, given)
    IN \A k \in hits :
         table[k].name = returned.value =>
           ~ \E j \in hits : MoreSpecific(table, text, j, k)

(* ---------------------------- analyze_pricing -------------------------- *)
\* el.get_text(strip=True): the text nodes of the element, each stripped,
\* joined without a separator
RECURSIVE GetTextStripped(_)
GetTextStripped(nodes) ==
  IF nodes = <<>> THEN "" ELSE Strip(Head(nodes)) \o GetTextStripped(Tail(nodes))

\* text.split(' to ')[0]
BeforeTo(text) ==
  LET at == {k \in 1..(Len(text) - 3) : SubSeq(text, k, k + 3) = " to "}
  IN IF at = {} THEN text
     ELSE SubSeq(text, 1, (CHOOSE k \in at : \A j \in at : k <= j) - 1)

\* re.sub(r'[^\d.]', '', text)
RECURSIVE DigitsAndDots(_)
DigitsAndDots(text) ==
  IF text = "" THEN ""
  ELSE (IF Contains("0123456789.", SubSeq(text, 1, 1)) THEN SubSeq(text, 1, 1) ELSE "")
       \o DigitsAndDots(Tail(text))

\* the positions of the decimal points of a cleaned text
Dots(cleaned) == {k \in 1..Len(cleaned) : SubSeq(cleaned, k, k) = "."}

\* float(cleaned) returns: at most one decimal point, at least one digit
\* (it raises ValueError otherwise)
IsFloat(cleaned) ==
  Cardinality(Dots(cleaned)) <= 1 /\ Len(cleaned) > Cardinality(Dots(cleaned))

\* int(digits), 0 for no digits
RECURSIVE ToInt(_)
ToInt(digits) ==
  IF digits = "" THEN 0
  ELSE 10 * ToInt(SubSeq(digits, 1, Len(digits) - 1))
       + (CHOOSE v \in 0..9 :
            SubSeq("0123456789", v + 1, v + 1) = SubSeq(digits, Len(digits), Len(digits)))

\* float(cleaned), in cents (prices carry at most two decimals)
Cents(cleaned) ==
  IF Dots(cleaned) = {} THEN 100 * ToInt(cleaned)
  ELSE LET dot == CHOOSE k \in Dots(cleaned) : TRUE
           frac == SubSeq(cleaned, dot + 1, Len(cleaned))
       IN 100 * ToInt(SubSeq(cleaned, 1, dot - 1))
          + (IF Len(frac) = 1 THEN 10 * ToInt(frac) ELSE ToInt(Prefix(frac, 2)))

\* lines 1246-1251 for one element: its cleaned text
CleanedPrice(el) == DigitsAndDots(BeforeTo(GetTextStripped(el)))

\* lines 1245-1251, from element k on: the prices collected, or the
\* ValueError of float() at the first text that is no number
RECURSIVE Prices(_, _, _)
Prices(elements, k, prices) ==
  IF k > Len(elements) THEN [raised |-> "", prices |-> prices]
  ELSE LET cleaned == CleanedPrice(elements[k])
       IN IF cleaned = "" THEN Prices(elements, k + 1, prices)
          ELSE IF ~IsFloat(cleaned) THEN [raised |-> "ValueError", prices |-> prices]
          ELSE IF Cents(cleaned) > 0
          THEN Prices(elements, k + 1, Append(prices, Cents(cleaned)))
          ELSE Prices(elements, k + 1, prices)

RECURSIVE Sum(_)
Sum(prices) == IF prices = <<>> THEN 0 ELSE Head(prices) + Sum(Tail(prices))

\* sorted(prices)
RECURSIVE Sorted(_)
Sorted(prices) ==
  IF prices = <<>> THEN <<>>
  ELSE LET k == CHOOSE k \in 1..Len(prices) : \A j \in 1..Len(prices) : prices[k] <= prices[j]
       IN <<prices[k]>> \o Sorted(SubSeq(prices, 1, k - 1) \o SubSeq(prices, k + 1, Len(prices)))

\* round(total / n, 2) in cents: the nearest cent; a value halfway between
\* two cents goes to either, as its binary representation falls
Round2(total, n) ==
  {q \in (total \div n)..(total \div n + 1) :
     2 * (n * q - total) <= n /\ 2 * (total - n * q) <= n}

\* statistics.median(prices), times two
TwiceMedian(prices) ==
  LET s == Sorted(prices)
      n == Len(s)
  IN IF n % 2 = 1 THEN 2 * s[(n + 1) \div 2] ELSE s[n \div 2] + s[n \div 2 + 1]

NoAnalysis == [none |-> TRUE, count |-> 0, avg |-> 0, median |-> 0, min |-> 0, max |-> 0]

\* lines 1253-1264: None, or the analysis of the prices (the analyses, where
\* a rounding falls either way)
Analyses(prices) ==
  IF prices = <<>> THEN {NoAnalysis}
  ELSE {[none |-> FALSE, count |-> Len(prices), avg |-> avg, median |-> median,
         min |-> Sorted(prices)[1], max |-> Sorted(prices)[Len(prices)]] :
          avg \in Round2(Sum(prices), Len(prices)),
          median \in Round2(TwiceMedian(prices), 2)}

\* The texts of span.s-item__price elements, each the sequence of its text
\* nodes: plain prices, a range as one text node, a range whose parts are
\* nested spans, a price of zero and a notice without a price.
PriceElements ==
  {<<"$10.00">>, <<"$12.50">>, <<"$10.01">>, <<"$1,234.56">>, <<"$8 to $15">>,
   <<"$8.00", " to ", "$15.00">>, <<"$0.00">>, <<"Tap item to see current price">>}

\* What session.get delivers: the page with its price elements, or a
\* RequestException (of the transport, or of raise_for_status).
Pages ==
  {[transport |-> "ok", elements |-> els] : els \in SeqsUpTo(PriceElements, MaxPrices)}
  \cup {[transport |-> t, elements |-> <<>>] :
          t \in {"requests.HTTPError", "requests.ConnectionError"}}

\* analyze_pricing, lines 1215-1264, for the page its GET delivered: the
\* outcomes it can have
analyze_pricing(page) ==
  IF page.transport # "ok" THEN {Value(NoAnalysis)}
  ELSE LET got == Prices(page.elements, 1, <<>>)
       IN IF got.raised # "" THEN {RaisedBy(got.raised)}
          ELSE {Value(a) : a \in Analyses(got.prices)}

AnalyzePricing ==
  /\ method = "none"
  /\ \E page \in Pages :
       /\ given' = page
       /\ \E out \in analyze_pricing(page) : returned' = out
  /\ method' = "analyze_pricing"
  /\ UNCHANGED <<clientVars, listerVars, appVars, sessionVars>>

\* the caller has the result
CardReturn ==
  /\ method # "none"
  /\ method' = "none"
  /\ given' = <<>>
  /\ returned' = <<>>
  /\ UNCHANGED <<clientVars, listerVars, appVars, sessionVars>>

CardInit == ClientIdle /\ NoLister /\ NoCardCall /\ NoApp /\ NoSessionState

CardNext ==
  \/ GenerateSeoTitle
  \/ DetectFeatures
  \/ DetectFromTable
  \/ AnalyzePricing
  \/ CardReturn

CardSpec == CardInit /\ [][CardNext]_vars

\* C16: every scraped price text is reduced to one number (a range to its
\* lower bound, symbols and commas removed, non-positive values dropped), so
\* analyze_pricing returns for every page it could fetch: None when no price
\* is left, else count, min, max, median and mean (to the cent) of exactly
\* the cleaned prices, with min <= median <= max and min <= mean <= max.
C16_StatisticsOfCleanedPrices ==
  method = "analyze_pricing" /\ given.transport = "ok" =>
    /\ returned.raised = ""
    /\ LET prices == Prices(given.elements, 1, <<>>).prices
           a == returned.value
       IN IF prices = <<>> THEN a.none
          ELSE /\ ~a.none
               /\ a.count = Len(prices)
               /\ a.min \in Elements(prices) /\ \A p \in Elements(prices) : a.min <= p
               /\ a.max \in Elements(prices) /\ \A p \in Elements(prices) : p <= a.max
               /\ a.avg \in Round2(Sum(prices), Len(prices))
               /\ a.median \in Round2(TwiceMedian(prices), 2)
               /\ a.min <= a.median /\ a.median <= a.max
               /\ a.min <= a.avg /\ a.avg <= a.max

(* ------------------------ main and batch_process ----------------------- *)
\* process_single_card, lines 1422-1442, for a record and the page its
\* pricing lookup fetched: the results it can return, or the exception of
\* analyze_pricing
process_single_card(details, page) ==
  {IF out.raised # "" THEN out
   ELSE Value([title |-> generate_seo_title(details),
               pricing_analysis |-> out.value,
               original_details |-> details]) :
     out \in analyze_pricing(page)}

\* The records of a CSV file: the two of the template and a third one.
BatchCards ==
  {Card("1986", "Fleer", "Michael Jordan", "57", "Rookie RC", "PSA", "10"),
   [Card("2022", "Panini Chronicles WWE", "Joaquin Wilde", "FX-JWD", "Auto", "", "")
      EXCEPT !.parallel_variety = "Red Prizm", !.insert_set = "Flux Auto Red"],
   Card("2018", "Topps Chrome", "Shohei Ohtani", "150", "Rookie RC Refractor", "", "")}

\* the pages a lookup of the tool may fetch: at most one price element
BatchPages == {page \in Pages : Len(page.elements) <= 1}

\* Mutant: the except clause of lines 1577-1579 ends the loop.
BatchExceptBreaks(i, total_cards) == total_cards

\* lines 1577-1579: print and continue; the loop goes on behind record i
BatchExcept(i, total_cards) == i

\* main, lines 1683-1701 up to the loop of batch_process: the CSV is loaded;
\* an empty list ends the run
MainBatch ==
  /\ lister_pc = "start"
  /\ args.batch
  /\ \E loaded \in SeqsUpTo(BatchCards, MaxCards) :
       /\ cards' = loaded
       /\ lister_pc' = IF loaded = <<>> THEN "done" ELSE "batch"
  /\ UNCHANGED <<args, card_i, results, processed, failed, lookups>>
  /\ UNCHANGED <<clientVars, cardVars, appVars, sessionVars>>

\* one iteration of the loop of batch_process, lines 1566-1579 (the pause
\* of lines 1574-1575 is not modelled); analyze_pricing sends its GET
\* whatever the command line says
BatchProcessCard ==
  /\ lister_pc = "batch"
  /\ LET i == card_i + 1 IN
     /\ processed' = Append(processed, i)
     /\ lookups' = Append(lookups, i)
     /\ \E page \in BatchPages : \E out \in process_single_card(cards[i], page) :
          IF out.raised # ""
          THEN /\ failed' = failed \cup {i}
               /\ results' = results
               /\ card_i' = BatchExcept(i, Len(cards))
          ELSE /\ failed' = failed
               /\ results' = Append(results, out.value)
               /\ card_i' = i
  /\ lister_pc' = IF card_i' < Len(cards) THEN "batch" ELSE "done"
  /\ UNCHANGED <<args, cards>>
  /\ UNCHANGED <<clientVars, cardVars, appVars, sessionVars>>

\* main, lines 1703-1711: the interactive mode asks for one record and
\* processes it; an exception is printed
MainInteractive ==
  /\ lister_pc = "start"
  /\ ~args.batch
  /\ \E details \in BatchCards :
       /\ cards' = <<details>>
       /\ \E page \in BatchPages : \E out \in process_single_card(details, page) :
            IF out.raised # ""
            THEN failed' = {1} /\ results' = <<>>
            ELSE failed' = {} /\ results' = <<out.value>>
  /\ card_i' = 1
  /\ processed' = <<1>>
  /\ lookups' = <<1>>
  /\ lister_pc' = "done"
  /\ UNCHANGED args
  /\ UNCHANGED <<clientVars, cardVars, appVars, sessionVars>>

\* the tool started with a command line without --template
ListerInit ==
  /\ args \in [batch : BOOLEAN, no_pricing : BOOLEAN]
  /\ cards = <<>>
  /\ lister_pc = "start"
  /\ card_i = 0
  /\ results = <<>>
  /\ processed = <<>>
  /\ failed = {}
  /\ lookups = <<>>
  /\ ClientIdle /\ NoCardCall /\ NoApp /\ NoSessionState

ListerNext ==
  \/ MainBatch
  \/ BatchProcessCard
  \/ MainInteractive

ListerSpec == ListerInit /\ [][ListerNext]_vars

\* the positions 1..n in order
UpTo(n) == [k \in 1..n |-> k]

\* C13: batch_process goes on behind a record whose processing raised: at
\* its end every record has been processed, in input order, and the result
\* list holds exactly the results of the records that did not fail, in
\* input order.
C13_BatchContinuesPastFailures ==
  lister_pc = "done" /\ args.batch =>
    LET passed == SelectSeq(UpTo(Len(cards)), LAMBDA k : k \notin failed)
    IN /\ processed = UpTo(Len(cards))
       /\ Len(results) = Len(passed)
       /\ \A j \in 1..Len(passed) :
            /\ results[j].original_details = cards[passed[j]]
            /\ results[j].title = generate_seo_title(cards[passed[j]])

\* a batch of different records whose first record failed and whose last
\* record is in the results
C13_Witness ==
  /\ lister_pc = "done" /\ args.batch
  /\ Len(cards) >= 2
  /\ 1 \in failed
  /\ Len(cards) \notin failed
  /\ cards[1] # cards[Len(cards)]
  /\ results[Len(results)].original_details = cards[Len(cards)]

\* C19: with --no-pricing no pricing lookup is sent, for no card, in batch
\* mode and in interactive mode.
C19_NoPricingSendsNoLookup ==
  args.no_pricing => lookups = <<>>

(* ======================================================================= *)
(* The Streamlit application of src/venice_ai_fixed.py: the script runs of *)
(* main, the clients they build and the image form.                        *)
(* ======================================================================= *)

(* -------------------------------- seeds -------------------------------- *)
\* A seed is a Python integer of up to 33 bits here, kept as its two 16-bit
\* halves, hi * 65536 + lo: 2^32 does not fit the 32-bit integers the
\* model is evaluated with.
Seed(hi, lo) == [hi |-> hi, lo |-> lo]

\* line 73: 2**32 - 1
MAX_IMAGE_SEED == Seed(65535, 65535)

\* seed + i, for i >= 0
SeedPlus(seed, i) ==
  Seed(seed.hi + (seed.lo + i) \div 65536, (seed.lo + i) % 65536)

\* a <= b
SeedLeq(a, b) == a.hi < b.hi \/ (a.hi = b.hi /\ a.lo <= b.lo)

(* ----------------------------- the image form ------------------------- *)
\* VENICE_MODELS['image'], lines 109-113
VENICE_IMAGE_MODELS ==
  {"hidream", "flux-dev", "flux-dev-uncensored", "stable-diffusion-3.5",
   "venice-sd35", "flux.1-krea", "lustify-sdxl", "pony-realism", "wai-Illustrious"}

\* Mutant: the prompt is not checked.
validate_parameters_without_prompt(f) ==
  (IF f.model \notin available_models.image THEN <<"Invalid model">> ELSE <<>>)
  \o (IF ~(256 <= f.width /\ f.width <= 1280)
      THEN <<"Width must be between 256-1280 pixels">> ELSE <<>>)
  \o (IF ~(256 <= f.height /\ f.height <= 1280)
      THEN <<"Height must be between 256-1280 pixels">> ELSE <<>>)
  \o (IF ~(1 <= f.steps /\ f.steps <= 50)
      THEN <<"Steps must be between 1-50">> ELSE <<>>)
  \o (IF ~(10 <= f.cfg_scale /\ f.cfg_scale <= 200)
      THEN <<"CFG Scale must be between 1.0-20.0">> ELSE <<>>)
  \o (IF f.use_seed /\ ~(SeedLeq(Seed(0, 0), f.seed) /\ SeedLeq(f.seed, MAX_IMAGE_SEED))
      THEN <<"Seed must be between 0-4294967295">> ELSE <<>>)

\* _validate_parameters, lines 602-631: the list of errors (cfg_scale in
\* tenths; use_seed false is seed None)
validate_parameters(f) ==
  (IF f.prompt = "" \/ Strip(f.prompt) = "" THEN <<"Prompt cannot be empty">>
   ELSE IF Len(f.prompt) > 1500 THEN <<"Prompt must be 1500 characters or less">>
   ELSE <<>>)
  \o (IF f.model \notin available_models.image THEN <<"Invalid model">> ELSE <<>>)
  \o (IF ~(256 <= f.width /\ f.width <= 1280)
      THEN <<"Width must be between 256-1280 pixels">> ELSE <<>>)
  \o (IF ~(256 <= f.height /\ f.height <= 1280)
      THEN <<"Height must be between 256-1280 pixels">> ELSE <<>>)
  \o (IF ~(1 <= f.steps /\ f.steps <= 50)
      THEN <<"Steps must be between 1-50">> ELSE <<>>)
  \o (IF ~(10 <= f.cfg_scale /\ f.cfg_scale <= 200)
      THEN <<"CFG Scale must be between 1.0-20.0">> ELSE <<>>)
  \o (IF f.use_seed /\ ~(SeedLeq(Seed(0, 0), f.seed) /\ SeedLeq(f.seed, MAX_IMAGE_SEED))
      THEN <<"Seed must be between 0-4294967295">> ELSE <<>>)

\* What the widgets of lines 659-727 can submit with the Generate button
\* (a non-empty prompt, line 722): a prompt of blanks or of words, one of
\* the first models the selectbox offers (the session's available image
\* models), a preset or a custom size, the default steps and scale, no seed
\* or a seed of the number input 0..MAX_IMAGE_SEED, a count of 1..3 (of
\* the four offered), and the Save to History box.
ImageForms ==
  {[prompt |-> prompt, model |-> model, width |-> size[1], height |-> size[2],
    steps |-> 20, cfg_scale |-> 75, use_seed |-> s[1], seed |-> s[2],
    num_images |-> num_images, save_to_history |-> save] :
     prompt \in {"   ", "a koi pond at sunset"},
     model \in available_models.image \cap {"hidream", "flux-dev", "qwen-image"},
     size \in {<<832, 1216>>, <<256, 1280>>},
     s \in {<<FALSE, Seed(0, 0)>>, <<TRUE, Seed(0, 42)>>, <<TRUE, Seed(65535, 65534)>>,
            <<TRUE, MAX_IMAGE_SEED>>},
     num_images \in 1..3,
     save \in BOOLEAN}

(* --------------------------- validate_api_key -------------------------- *)
\* VENICE_MODELS, lines 102-117
VENICE_TEXT_MODELS ==
  {"venice-uncensored", "qwen-2.5-qwq-32b", "qwen3-4b", "mistral-31-24b", "qwen3-235b",
   "llama-3.2-3b", "llama-3.3-70b", "llama-3.1-405b", "dolphin-2.9.2-qwen2-72b",
   "qwen-2.5-vl", "qwen-2.5-coder-32b", "deepseek-r1-671b", "deepseek-coder-v2-lite"}
VENICE_AUDIO_MODELS == {"tts-kokoro"}
VENICE_MODELS ==
  [text |-> VENICE_TEXT_MODELS, image |-> VENICE_IMAGE_MODELS, audio |-> VENICE_AUDIO_MODELS]

\* What the GET of the rate-limits endpoint gives (line 327).  A 200 carries
\* JSON whose data.apiTier.isCharged is true ("charged") or false
\* ("not_charged"), an object without 'data' ("no_data"), JSON that is not an
\* object ("not_object": rate_data.get raises AttributeError), or no JSON at
\* all ("not_json": response.json() raises requests' JSONDecodeError, or
\* json's own under an older requests).
RateLimitReplies ==
  {[transport |-> "ok", status |-> 200, json |-> j, raises |-> ""] :
     j \in {"charged", "not_charged", "no_data", "not_object"}}
  \cup {[transport |-> "ok", status |-> 200, json |-> "not_json", raises |-> k] :
          k \in {"requests.JSONDecodeError", "json.JSONDecodeError"}}
  \cup {[transport |-> "ok", status |-> s, json |-> "", raises |-> ""] : s \in {401, 429, 500}}
  \cup {[transport |-> t, status |-> 0, json |-> "", raises |-> ""] :
          t \in {"requests.Timeout", "requests.ConnectionError"}}

\* One entry of the 'data' list of the models endpoint
Model(type, id) == [type |-> type, id |-> id]

\* What the GET of the models endpoint gives (line 342): a 200 with a list of
\* models (none, or some of every type and one of a type the program does
\* not know), a 200 without 'data', a 200 that is not JSON, another status with
\* an error body, or a transport exception.
ModelListings ==
  {<<>>,
   <<Model("text", "venice-uncensored"), Model("image", "hidream"),
     Model("image", "qwen-image"), Model("tts", "tts-kokoro"),
     Model("embedding", "text-embedding-bge-m3")>>}

ModelsReplies ==
  {[transport |-> "ok", status |-> 200, json |-> "data", data |-> d, body |-> NoBody,
    raises |-> ""] : d \in ModelListings}
  \cup {[transport |-> "ok", status |-> 200, json |-> "no_data", data |-> <<>>,
         body |-> NoBody, raises |-> ""]}
  \cup {[transport |-> "ok", status |-> 200, json |-> "not_json", data |-> <<>>,
         body |-> NoBody, raises |-> k] :
          k \in {"requests.JSONDecodeError", "json.JSONDecodeError"}}
  \cup {[transport |-> "ok", status |-> s, json |-> "", data |-> <<>>, body |-> b,
         raises |-> ""] :
          s \in {401, 402, 429, 500},
          b \in {c \in ErrorBodies : c.shape \in {"json_error", "empty"}}}
  \cup {[transport |-> t, status |-> 0, json |-> "", data |-> <<>>, body |-> NoBody,
         raises |-> ""] :
          t \in {"requests.Timeout", "requests.ConnectionError"}}

\* What validate_api_key returns, and what it stored in rate_limit_info
\* (stored FALSE: it left the session state alone).
Validated(valid, message, models, stored, info) ==
  [valid |-> valid, message |-> message, models |-> models, stored |-> stored, info |-> info]

\* lines 372-381: the except clauses, in order
ValidateExcept(e, stored, info) ==
  IF e.kind = "AuthenticationError"
  THEN Validated(FALSE, "Invalid API key or Pro subscription required", NoModels,
                 stored, info)
  ELSE IF e.kind = "QuotaExceededError"
  THEN Validated(FALSE, "Insufficient balance. Please add funds to your account.",
                 NoModels, stored, info)
  ELSE IF e.kind \in RequestExceptionKinds
  THEN Validated(FALSE, "Connection error: " \o e.msg, VENICE_MODELS, stored, info)
  ELSE Validated(FALSE, "Validation error: " \o e.msg, VENICE_MODELS, stored, info)

\* lines 349-366: the ids of the listed models by type, and the defaults for
\* a type without a listed model
IdsOfType(data, type) == {data[k].id : k \in {j \in 1..Len(data) : data[j].type = type}}
OrDefault(ids, default) == IF ids = {} THEN default ELSE ids
ListedModels(data) ==
  [text |-> OrDefault(IdsOfType(data, "text"), VENICE_TEXT_MODELS),
   image |-> OrDefault(IdsOfType(data, "image"), VENICE_IMAGE_MODELS),
   audio |-> OrDefault(IdsOfType(data, "tts"), VENICE_AUDIO_MODELS)]

\* lines 342-370: the models endpoint
ValidateModels(models, stored, info) ==
  IF models.transport # "ok"
  THEN ValidateExcept(Exc(models.transport, TransportText(models.transport)), stored, info)
  ELSE IF models.status # 200
  THEN ValidateExcept(HandleApiError(models.status, models.body), stored, info)
  ELSE IF models.json = "not_json"
  THEN ValidateExcept(Exc(models.raises, "Expecting value: line 1 column 1 (char 0)"),
                      stored, info)
  ELSE Validated(TRUE, "API key validated successfully",
                 ListedModels(IF models.json = "data" THEN models.data ELSE <<>>),
                 stored, info)

\* validate_api_key, lines 323-381, on the replies of the two endpoints (the
\* second is asked only when the first did not end the call)
validate_api_key(rate, models) ==
  IF rate.transport # "ok"
  THEN ValidateExcept(Exc(rate.transport, TransportText(rate.transport)), FALSE, "")
  ELSE IF rate.status # 200
  THEN ValidateModels(models, FALSE, "")
  ELSE IF rate.json = "not_json"
  THEN ValidateExcept(Exc(rate.raises, "Expecting value: line 1 column 1 (char 0)"),
                      FALSE, "")
  ELSE IF rate.json = "not_object"
  THEN ValidateExcept(Exc("AttributeError", "'list' object has no attribute 'get'"),
                      FALSE, "")
  ELSE IF rate.json = "charged"
  THEN ValidateModels(models, TRUE, "charged")
  ELSE Validated(FALSE,
                 "Pro subscription required for full API access. Please upgrade at venice.ai",
                 VENICE_MODELS, TRUE,
                 IF rate.json = "no_data" THEN "" ELSE rate.json)

(* ------------------------------ script runs ---------------------------- *)
\* SessionState.initialize, lines 254-266, at the start of every run: a key
\* that is not set is taken from st.secrets or from the environment.
Initialize(key) == IF key = "" THEN env_key ELSE key

\* Mutant: uuid4 hands out the identifier it handed out last.
uuid4_repeated(drawn) == drawn

\* uuid.uuid4(): an identifier that was not drawn before; identifiers are
\* numbered in the order they are drawn.
uuid4(drawn) == drawn + 1

\* VeniceAIClient.__init__ / _create_session, lines 282-298: the client
\* with the next identity gets one new requests.Session, which is open.
NewSession == [owner |-> Len(sessions) + 1, open |-> TRUE]

\* A client goes out of scope.  Nothing in the module calls close() on its
\* session; whether the interpreter's garbage collection closes the
\* session's connections at that moment depends on the runtime, so both
\* outcomes are possible.
Discard(all, owner, finalized) ==
  [k \in 1..Len(all) |->
     IF all[k].owner = owner /\ finalized THEN [all[k] EXCEPT !.open = FALSE]
     ELSE all[k]]

\* Mutant: the sidebar lets a run with a key go on, validated or not.
SidebarStopsWithoutKey(validated, key) == key = ""

\* line 1128: the sidebar asks for validation and stops the run (st.stop,
\* line 1151)
SidebarStops(validated, key) == ~validated \/ key = ""

\* The rest of a run in which no button of the sidebar ended it: st.stop at
\* line 1151, or main goes on and builds its client (line 1295).
Proceed(validated, key) ==
  IF SidebarStops(validated, key)
  THEN ui_pc' = "end" /\ UNCHANGED <<client, sessions>>
  ELSE /\ ui_pc' = "run"
       /\ sessions' = Append(sessions, NewSession)
       /\ client' = NewSession.owner

\* A script run starts: main is run from the top (a rerun).
StartRun ==
  /\ ui_pc = "idle"
  /\ reruns < MaxReruns
  /\ reruns' = reruns + 1

\* Mutant: a changed key keeps the validation of the key before it.
KeptValidation(validated) == validated

\* lines 1115, 1124, 1344: api_validated after the key was replaced or
\* dropped
Withdrawn(validated) == FALSE

\* what the text input of line 1103 holds when Update Key is pressed
TypedKeys == {"", "   ", " sk-typed "}

\* Update Key, lines 1112-1119: a key that is not blank is stored
\* stripped, the validation is withdrawn and the script reruns; otherwise
\* st.error, and the run goes on
SidebarUpdateKey ==
  /\ StartRun
  /\ \E typed \in TypedKeys :
       IF typed # "" /\ Strip(typed) # ""
       THEN /\ api_key' = Strip(typed)
            /\ api_validated' = Withdrawn(api_validated)
            /\ ui_pc' = "updated"
            /\ UNCHANGED <<client, sessions>>
       ELSE /\ api_key' = Initialize(api_key)
            /\ api_validated' = api_validated
            /\ Proceed(api_validated, Initialize(api_key))
  /\ UNCHANGED <<env_key, available_models, rate_limit_info, validation>>
  /\ UNCHANGED <<form, img_i, image_requests, chatVars, mediaVars>>
  /\ UNCHANGED <<clientVars, listerVars, cardVars>>

\* Clear Key, lines 1122-1126
SidebarClearKey ==
  /\ StartRun
  /\ api_key' = ""
  /\ api_validated' = Withdrawn(api_validated)
  /\ ui_pc' = "cleared"
  /\ UNCHANGED <<env_key, available_models, rate_limit_info, validation>>
  /\ UNCHANGED <<client, sessions, form, img_i, image_requests, chatVars, mediaVars>>
  /\ UNCHANGED <<clientVars, listerVars, cardVars>>

\* Validate API Key, lines 1128-1151, shown while the sidebar stops the
\* run: with a key, a client is built for validate_api_key and its verdict
\* is stored (st.rerun follows a valid key, st.stop anything else; the
\* client is gone either way); without a key, st.error.
SidebarValidate ==
  /\ StartRun
  /\ SidebarStops(api_validated, Initialize(api_key))
  /\ api_key' = Initialize(api_key)
  /\ ui_pc' = "validated"
  /\ IF Initialize(api_key) # ""
     THEN \E rate \in RateLimitReplies, models \in ModelsReplies, finalized \in BOOLEAN :
            LET out == validate_api_key(rate, models) IN
            /\ validation' = [called |-> TRUE, key |-> Initialize(api_key),
                              rate_status |-> rate.status, rate_json |-> rate.json,
                              valid |-> out.valid, message |-> out.message]
            /\ api_validated' = out.valid
            /\ available_models' = IF out.valid THEN out.models ELSE available_models
            /\ rate_limit_info' = IF out.stored THEN out.info ELSE rate_limit_info
            /\ sessions' = Discard(Append(sessions, NewSession), NewSession.owner, finalized)
     ELSE /\ validation' = NoValidation
          /\ UNCHANGED <<api_validated, available_models, rate_limit_info, sessions>>
  /\ UNCHANGED <<env_key, client, form, img_i, image_requests, chatVars, mediaVars>>
  /\ UNCHANGED <<clientVars, listerVars, cardVars>>

\* a run without a button of the sidebar, lines 1286-1295: the sidebar stops
\* it, or main builds its client
RunMain ==
  /\ StartRun
  /\ api_key' = Initialize(api_key)
  /\ Proceed(api_validated, Initialize(api_key))
  /\ UNCHANGED <<env_key, api_validated, available_models, rate_limit_info, validation>>
  /\ UNCHANGED <<form, img_i, image_requests, chatVars, mediaVars>>
  /\ UNCHANGED <<clientVars, listerVars, cardVars>>

\* A call of an operation of the run's client: which one, with which key,
\* and whether the key was validated then.
Operation(kind) == [kind |-> kind, key |-> api_key, validated |-> api_validated]

(* ------------------------------ image mode ----------------------------- *)
\* ImageGenerator.render, lines 732-747: the form was submitted; it is
\* validated, and _generate_images starts when there is no error
SubmitImageForm ==
  /\ ui_pc = "run"
  /\ \E f \in ImageForms :
       /\ form' = f
       /\ ui_pc' = IF validate_parameters(f) = <<>> THEN "images" ELSE "end"
  /\ img_i' = 0
  /\ image_requests' = <<>>
  /\ UNCHANGED <<reruns, client, sessions, sessionVars>>
  /\ UNCHANGED <<clientVars, listerVars, cardVars>>

\* The replies one generate_image call of the UI gets, in order: an image
\* at once, an image after a 429, nothing but 429.
ImageReply(status, payload) ==
  [transport |-> "ok", status |-> status, body |-> NoBody, payload |-> payload]
OneImage == [shape |-> "images", images |-> <<[dataurl |-> FALSE, b64 |-> "AAAA"]>>, raises |-> ""]
ImageCallReplies ==
  {<<ImageReply(200, OneImage)>>,
   <<ImageReply(429, NoPayload), ImageReply(200, OneImage)>>,
   <<ImageReply(429, NoPayload), ImageReply(429, NoPayload), ImageReply(429, NoPayload)>>}

\* Mutant: the entry is appended whatever the Save to History box says.
HistoryAfterAlwaysSaved(history, save_to_history, outcome) ==
  IF outcome.success THEN Append(history, [images |-> outcome.images]) ELSE history

\* lines 782-799: image_history after a call (of an entry: its images)
HistoryAfter(history, save_to_history, outcome) ==
  IF outcome.success /\ save_to_history
  THEN Append(history, [images |-> outcome.images])
  ELSE history

\* _generate_images, lines 763-808: iteration i of the loop calls
\* generate_image of the run's client with seed + i (or without a seed),
\* which puts its arguments into the payload (lines 454-472) and, with the
\* max_retries of VeniceSettings(), sends its requests; a success goes to
\* the history if asked, a failure to last_error
GenerateImages ==
  /\ ui_pc = "images"
  /\ \E replies \in ImageCallReplies :
       LET call == GenerateImageFrom(replies, 0, DefaultMaxRetries)
           current_seed == [use_seed |-> form.use_seed,
                            seed |-> IF form.use_seed THEN SeedPlus(form.seed, img_i)
                                     ELSE form.seed]
       IN /\ image_requests' =
               Append(image_requests,
                      [prompt |-> form.prompt, model |-> form.model,
                       width |-> form.width, height |-> form.height,
                       steps |-> form.steps, cfg_scale |-> form.cfg_scale,
                       use_seed |-> current_seed.use_seed, seed |-> current_seed.seed,
                       session |-> client,
                       success |-> call.result.success, requests |-> call.requests])
          /\ image_history' = HistoryAfter(image_history, form.save_to_history, call.result)
          /\ last_error' = IF call.result.success THEN last_error ELSE call.result.error
  /\ sent' = Append(sent, Operation("image"))
  /\ img_i' = img_i + 1
  /\ ui_pc' = IF img_i + 1 < form.num_images THEN "images" ELSE "end"
  /\ UNCHANGED <<reruns, client, sessions, form, keyVars, chatVars, generated_audio>>
  /\ UNCHANGED <<clientVars, listerVars, cardVars>>

(* ------------------------------- chat mode ----------------------------- *)
Message(role, content) == [role |-> role, content |-> content]

\* len(s.split()): the number of words of a text
Words(s) ==
  Cardinality({k \in 1..Len(s) :
                 SubSeq(s, k, k) # " " /\ (k = 1 \/ SubSeq(s, k - 1, k - 1) = " ")})

\* full_response, lines 959-965: the chunks put together
RECURSIVE Chunks(_)
Chunks(ys) == IF ys = <<>> THEN "" ELSE Head(ys).text \o Chunks(Tail(ys))

ChatPrompts == {"hi", "tell me more"}

\* What the chat endpoint answers in a turn of the UI: a stream of two
\* fragments, a stream that breaks after one, a server error, a timeout.
TurnReplies ==
  {[transport |-> "ok", status |-> 200, body |-> NoBody,
    lines |-> <<ChatLine("content", "A"), ChatLine("content", "B"), ChatLine("done", "")>>,
    stream_end |-> "eof"],
   [transport |-> "ok", status |-> 200, body |-> NoBody,
    lines |-> <<ChatLine("content", "A")>>, stream_end |-> "requests.ChunkedEncodingError"],
   [transport |-> "ok", status |-> 500, body |-> NoBody, lines |-> <<>>, stream_end |-> "eof"],
   [transport |-> "requests.Timeout", status |-> 0, body |-> NoBody, lines |-> <<>>,
    stream_end |-> "eof"]}

\* ChatInterface.render, lines 944-954: a prompt was entered; it is appended
\* and the answer starts streaming
ChatSubmit ==
  /\ ui_pc = "run"
  /\ ~is_streaming
  /\ \E prompt \in ChatPrompts : messages' = Append(messages, Message("user", prompt))
  /\ is_streaming' = TRUE
  /\ sent' = Append(sent, Operation("chat"))
  /\ ui_pc' = "chat"
  /\ UNCHANGED <<reruns, client, sessions, form, img_i, image_requests>>
  /\ UNCHANGED <<keyVars, conversation_id, total_tokens, generated_audio, image_history,
                 last_error>>
  /\ UNCHANGED <<clientVars, listerVars, cardVars>>

\* Mutant: the handler of lines 971-975 shows the error and appends nothing.
TurnFailedAppendsNothing(msgs, text) == msgs

\* lines 971-975: an exception in the turn is appended as the answer
TurnFailed(msgs, text) == Append(msgs, Message("assistant", ":x: Error: " \o text))

\* what st.markdown raised when the answer could not be displayed
DisplayError == "Bad message format"

\* lines 956-978: the chunks of chat_completion are put together, displayed
\* and appended with the token count; if that raises, the error is
\* appended instead; is_streaming is reset in either case
ChatAnswer ==
  /\ ui_pc = "chat"
  /\ \E r \in TurnReplies, displayed \in BOOLEAN :
       LET prompt == messages[Len(messages)].content
           full_response == Chunks(ChatYielded(r))
       IN IF displayed
          THEN /\ messages' = Append(messages, Message("assistant", full_response))
               /\ total_tokens' = total_tokens + Words(full_response) + Words(prompt)
               /\ last_error' = last_error
          ELSE /\ messages' = TurnFailed(messages, DisplayError)
               /\ total_tokens' = total_tokens
               /\ last_error' = DisplayError
  /\ is_streaming' = FALSE
  /\ ui_pc' = "end"
  /\ UNCHANGED <<reruns, client, sessions, form, img_i, image_requests>>
  /\ UNCHANGED <<keyVars, conversation_id, generated_audio, image_history, sent>>
  /\ UNCHANGED <<clientVars, listerVars, cardVars>>

\* Clear Chat, line 937: SessionState.reset_conversation, lines 268-274,
\* which ends the run with st.rerun
ClearChat ==
  /\ ui_pc = "run"
  /\ messages' = <<>>
  /\ conversation_id' = uuid4(conversation_id)
  /\ total_tokens' = 0
  /\ ui_pc' = "chat_cleared"
  /\ UNCHANGED <<reruns, client, sessions, form, img_i, image_requests>>
  /\ UNCHANGED <<keyVars, is_streaming, mediaVars>>
  /\ UNCHANGED <<clientVars, listerVars, cardVars>>

(* ------------------------------ audio mode ----------------------------- *)
\* What the speech endpoint answers in the UI: audio, a server error, a
\* timeout.
SpeechReplies ==
  {[transport |-> "ok", status |-> 200, body |-> NoBody, content |-> "ID3-audio"],
   [transport |-> "ok", status |-> 500, body |-> NoBody, content |-> ""],
   [transport |-> "requests.Timeout", status |-> 0, body |-> NoBody, content |-> ""]}

\* AudioInterface.render, lines 1018-1051: the form was submitted with a
\* text; the audio is appended to generated_audio, an exception goes to
\* last_error
GenerateAudio ==
  /\ ui_pc = "run"
  /\ \E r \in SpeechReplies :
       LET out == TtsReturns(r) IN
       IF out.raised = ""
       THEN /\ generated_audio' = Append(generated_audio, [text |-> "Hello", audio |-> out.audio])
            /\ last_error' = last_error
       ELSE /\ generated_audio' = generated_audio
            /\ last_error' = out.error
  /\ sent' = Append(sent, Operation("speech"))
  /\ ui_pc' = "end"
  /\ UNCHANGED <<reruns, client, sessions, form, img_i, image_requests>>
  /\ UNCHANGED <<keyVars, chatVars, image_history>>
  /\ UNCHANGED <<clientVars, listerVars, cardVars>>

(* ---------------------------- the end of a run ------------------------- *)
\* str(e) of an exception that reached main's handler
MainError == "Application Error"

\* main, lines 1328-1346: an exception of the run reached the handler; the
\* error is stored, and one of the recovery buttons may have been pressed.
\* Reset Application deletes every entry of the session state but api_key,
\* and initialize, first thing in the rerun, puts the defaults back with a
\* new conversation id; Reset API Key drops the key and its validation.
MainExcept ==
  /\ ui_pc = "run"
  /\ ui_pc' = "recovered"
  /\ \E button \in {"none", "reset_app", "reset_key"} :
       IF button = "reset_app"
       THEN /\ api_key' = api_key
            /\ api_validated' = FALSE
            /\ available_models' = NoModels
            /\ rate_limit_info' = ""
            /\ messages' = <<>>
            /\ conversation_id' = uuid4(conversation_id)
            /\ total_tokens' = 0
            /\ is_streaming' = FALSE
            /\ generated_audio' = <<>>
            /\ image_history' = <<>>
            /\ last_error' = ""
       ELSE /\ last_error' = MainError
            /\ api_key' = IF button = "reset_key" THEN "" ELSE api_key
            /\ api_validated' = IF button = "reset_key" THEN Withdrawn(api_validated)
                               ELSE api_validated
            /\ UNCHANGED <<available_models, rate_limit_info, chatVars, generated_audio,
                           image_history>>
  /\ UNCHANGED <<env_key, validation, sent>>
  /\ UNCHANGED <<reruns, client, sessions, form, img_i, image_requests>>
  /\ UNCHANGED <<clientVars, listerVars, cardVars>>

\* where a run can end
RunEnds == {"run", "end", "updated", "cleared", "validated", "chat_cleared", "recovered"}

\* the script run ends; its local variables, the client among them, are gone
EndRun ==
  /\ ui_pc \in RunEnds
  /\ ui_pc' = "idle"
  /\ client' = 0
  /\ form' = <<>>
  /\ img_i' = 0
  /\ image_requests' = <<>>
  /\ sent' = <<>>
  /\ validation' = NoValidation
  /\ \E finalized \in BOOLEAN : sessions' = Discard(sessions, client, finalized)
  /\ UNCHANGED reruns
  /\ UNCHANGED <<env_key, api_key, api_validated, available_models, rate_limit_info>>
  /\ UNCHANGED <<chatVars, generated_audio, image_history, last_error>>
  /\ UNCHANGED <<clientVars, listerVars, cardVars>>

\* The application starts with an empty session state, with or without a
\* configured key.
AppInit ==
  /\ ClientIdle /\ NoLister /\ NoCardCall /\ NoApp
  /\ env_key \in {"", "sk-env"}
  /\ Defaults
  /\ validation = NoValidation
  /\ sent = <<>>

\* The runs of the image mode.
AppNext ==
  \/ SidebarValidate
  \/ RunMain
  \/ SubmitImageForm
  \/ GenerateImages
  \/ EndRun

AppSpec == AppInit /\ [][AppNext]_vars

\* C18: every generate_image call of the UI carries no seed or a seed in
\* [0, 2^32-1], for every validated form and every count 1..4.
C18_SentSeedsInRange ==
  \A k \in 1..Len(image_requests) :
    image_requests[k].use_seed =>
      /\ SeedLeq(Seed(0, 0), image_requests[k].seed)
      /\ SeedLeq(image_requests[k].seed, MAX_IMAGE_SEED)

\* C20: every client has exactly one session, its requests use it, and a
\* session is open only as long as its client exists.
C20_SessionsCloseWithTheirClient ==
  /\ \A j, k \in 1..Len(sessions) : sessions[j].owner = sessions[k].owner => j = k
  /\ \A k \in 1..Len(image_requests) : image_requests[k].session = client
  /\ \A k \in 1..Len(sessions) : sessions[k].open => sessions[k].owner = client

\* the image form was submitted in this run
FormSubmitted == DOMAIN form # {}

\* C24: generate_image is called only for a form without a validation
\* error: every request of the UI carries a prompt that is not blank and has
\* at most 1500 characters, one of the session's available image models, a
\* width and a height in [256, 1280], steps in [1, 50] and a guidance scale
\* in [1.0, 20.0]; and a form with an error sends no request.
C24_RequestsOnlyFromValidForms ==
  /\ \A k \in 1..Len(image_requests) :
       LET q == image_requests[k] IN
       /\ Strip(q.prompt) # "" /\ Len(q.prompt) <= 1500
       /\ q.model \in available_models.image
       /\ 256 <= q.width /\ q.width <= 1280
       /\ 256 <= q.height /\ q.height <= 1280
       /\ 1 <= q.steps /\ q.steps <= 50
       /\ 10 <= q.cfg_scale /\ q.cfg_scale <= 200
  /\ (ui_pc = "images" \/ image_requests # <<>>) =>
       (FormSubmitted /\ validate_parameters(form) = <<>>)
  /\ (FormSubmitted /\ validate_parameters(form) # <<>>) =>
       (ui_pc = "end" /\ image_requests = <<>>)

\* C24 witness: two requests of a custom size for a model the API listed
C24_Witness ==
  /\ Len(image_requests) = 2
  /\ image_requests[2].width = 256 /\ image_requests[2].height = 1280
  /\ image_requests[2].model = "qwen-image"

\* the requests the generate_image calls of the current submission sent
RECURSIVE RequestsSent(_)
RequestsSent(calls) ==
  IF calls = <<>> THEN 0 ELSE Head(calls).requests + RequestsSent(Tail(calls))

\* an iteration of the loop of _generate_images is taken
ImageCallStep == Len(image_requests') = Len(image_requests) + 1

\* C25: for a count N, _generate_images calls generate_image exactly N
\* times, in the order of the seeds, whatever the calls return, and the
\* calls send at most N * max_retries requests; each successful call adds
\* one entry to image_history when Save to History is set and none
\* otherwise; a failed call adds no entry and stores its error in
\* last_error.
C25_OneCallPerImage ==
  /\ [](/\ Len(image_requests) = img_i
        /\ ui_pc = "images" => img_i < form.num_images
        /\ (ui_pc = "end" /\ FormSubmitted /\ validate_parameters(form) = <<>>) =>
             Len(image_requests) = form.num_images
        /\ \A k \in 1..Len(image_requests) :
             /\ image_requests[k].requests \in 1..DefaultMaxRetries
             /\ image_requests[k].use_seed = form.use_seed
             /\ image_requests[k].seed =
                  (IF form.use_seed THEN SeedPlus(form.seed, k - 1) ELSE form.seed)
        /\ RequestsSent(image_requests) <= Len(image_requests) * DefaultMaxRetries)
  /\ [][ImageCallStep =>
          LET call == image_requests'[Len(image_requests')] IN
          /\ Len(image_history') =
               Len(image_history) + (IF call.success /\ form.save_to_history THEN 1 ELSE 0)
          /\ SubSeq(image_history', 1, Len(image_history)) = image_history
          /\ call.success => last_error' = last_error
          /\ ~call.success => last_error' # ""]_vars

\* C25 witness: of three calls the second failed; the two others are in the
\* history
C25_Witness ==
  /\ ui_pc = "end"
  /\ Len(image_requests) = 3
  /\ image_requests[1].success /\ ~image_requests[2].success /\ image_requests[3].success
  /\ form.save_to_history
  /\ Len(image_history) = 2
  /\ last_error # ""

(* ======================================================================= *)
(* The session state over the runs of every mode: the key and its          *)
(* validation, the conversation, the histories.                            *)
(* ======================================================================= *)

\* The image form as it is submitted among the other modes: one image,
\* without a seed, at the first size and model.
SubmitOneImage ==
  /\ SubmitImageForm
  /\ form'.num_images = 1 /\ ~form'.use_seed
  /\ form'.width = 832 /\ form'.model = "hidream"

SessionNext ==
  \/ SidebarUpdateKey
  \/ SidebarClearKey
  \/ SidebarValidate
  \/ RunMain
  \/ ChatSubmit
  \/ ChatAnswer
  \/ ClearChat
  \/ GenerateAudio
  \/ SubmitOneImage
  \/ GenerateImages
  \/ MainExcept
  \/ EndRun

SessionSpec == AppInit /\ [][SessionNext]_vars

\* C22: validate_api_key reports the key as valid only when the rate-limits
\* endpoint answered 200 with apiTier.isCharged true, whatever the two
\* endpoints answer.
C22_ValidOnlyWithChargedTier ==
  (validation.called /\ validation.valid) =>
    (validation.rate_status = 200 /\ validation.rate_json = "charged")

\* C26: in every state of the session api_validated implies that a key is
\* stored; Update Key and Clear Key leave api_validated FALSE, as does every
\* step that replaces or drops the stored key (initialize loading the
\* configured key into an empty slot is not one); api_validated is what validate_api_key
\* returned for the stored key, and it becomes TRUE only in such a
\* validation.
C26_ValidatedOnlyWithItsKey ==
  /\ [](/\ api_validated => api_key # ""
        /\ ui_pc \in {"updated", "cleared"} => ~api_validated
        /\ validation.called =>
             (ui_pc = "validated" /\ validation.key = api_key
              /\ api_validated = validation.valid))
  /\ [][/\ api_key' \notin {api_key, Initialize(api_key)} => ~api_validated'
        /\ (~api_validated /\ api_validated') =>
             (validation'.called /\ validation'.valid /\ validation'.key = api_key')]_vars

\* C26 witness: the typed key, stored stripped, was validated
C26_Witness ==
  /\ ui_pc = "validated"
  /\ api_key = "sk-typed"
  /\ validation.called /\ validation.valid
  /\ api_validated

\* C27: chat_completion, generate_image and text_to_speech are called only
\* with a validated key that is not empty: a run goes past the sidebar, to
\* the client of main and to any of the modes, only in such a state, and a
\* run the sidebar stopped has sent nothing.
C27_NoRequestWithoutValidation ==
  /\ \A k \in 1..Len(sent) : sent[k].validated /\ sent[k].key # ""
  /\ ui_pc \in {"run", "chat", "images"} =>
       (client # 0 /\ api_validated /\ api_key # "")
  /\ client = 0 => sent = <<>>
  /\ ~(api_validated /\ api_key # "") => ui_pc \notin {"run", "chat", "images"}

\* C27 witness: a speech request of a validated run
C27_Witness ==
  /\ sent # <<>>
  /\ sent[Len(sent)].kind = "speech"
  /\ api_validated

\* the messages alternate user, assistant, from a user message on
Alternating(msgs) ==
  \A k \in 1..Len(msgs) : msgs[k].role = (IF k % 2 = 1 THEN "user" ELSE "assistant")

\* C28: between the turns messages has an even length and alternates user,
\* assistant, starting with user, and is_streaming is FALSE; a turn adds
\* its user message and then exactly one assistant message, be it the
\* answer, the error the stream reported, or the error of an exception.
C28_ChatHistoryWellFormed ==
  /\ Alternating(messages)
  /\ ui_pc # "chat" => (Len(messages) % 2 = 0 /\ ~is_streaming)
  /\ ui_pc = "chat" => (Len(messages) % 2 = 1 /\ is_streaming)

\* C28 witness: a turn that failed with an exception, then a turn that was
\* answered
C28_Witness ==
  /\ ui_pc = "end"
  /\ Len(messages) = 4
  /\ messages[2].content = ":x: Error: " \o DisplayError
  /\ messages[4].content = "AB"
  /\ ~is_streaming

\* C30: reset_conversation empties messages, sets total_tokens to 0 and
\* draws a conversation_id different from the one before; api_key,
\* api_validated, available_models, image_history, generated_audio,
\* rate_limit_info and last_error stay as they are.
C30_ResetChangesOnlyTheConversation ==
  [][(ui_pc = "run" /\ ui_pc' = "chat_cleared") =>
       /\ messages' = <<>>
       /\ total_tokens' = 0
       /\ conversation_id' # conversation_id
       /\ UNCHANGED <<api_key, api_validated, available_models, image_history,
                      generated_audio, rate_limit_info, last_error>>]_vars

\* C30 witness: the conversation was reset after a turn that failed
C30_Witness ==
  /\ ui_pc = "chat_cleared"
  /\ messages = <<>> /\ total_tokens = 0
  /\ conversation_id = 2
  /\ last_error = DisplayError
  /\ api_validated

====
